---- MODULE Spec2Model ----
(***************************************************************************)
(* Model of my-expenses-graphql: the Expense entity, the Prisma-backed     *)
(* Expense and Category repositories, the GraphQL mutations and the        *)
(* monthly report query.                                                   *)
(*                                                                         *)
(* Encodings                                                               *)
(*   text      a sequence of one-character strings ("" is << >>)           *)
(*   amount    an integer count of thousandths of the currency unit, so    *)
(*             that a value finer than the DECIMAL(18,2) column exists     *)
(*   optional  a sequence of length 0 (absent / null) or 1 (present)       *)
(*   clock     `now` is the value `new Date()` returns, a logical instant  *)
(*   date      the expense's business date, <<day number, ms of day>>      *)
(***************************************************************************)
EXTENDS Integers, Sequences, FiniteSets, TLC

VARIABLES
    expenses,      \* table "expenses":   id -> row
    categories,    \* table "categories": id -> row
    usedIds,       \* expense ids that randomUUID has already handed out
    usedCatIds,    \* category ids that the store has already generated
    now,           \* the clock read by `new Date()`
    ent,           \* an Expense instance held by a caller (entity-level runs)
    inflight,      \* calls suspended at an `await`, with their local variables
    last           \* the outcome of the last operation

vars == <<expenses, categories, usedIds, usedCatIds, now, ent, inflight, last>>

----------------------------------------------------------------------------
\* Bounds and sample input sets

MaxTime == 1
MaxCategories == 2

\* The identifiers randomUUID can return
ExpenseIds == { 1, 2 }
CategoryIds == 1..MaxCategories

\* "", " ", "a": empty, whitespace-only, and a proper description
Descriptions == { <<>>, <<" ">>, <<"a">> }

\* -1.000, 0, 0.004 and 1.500 in thousandths
Amounts == { -1000, 0, 4, 1500 }

----------------------------------------------------------------------------
\* Calendar arithmetic of the JavaScript Date constructor (local time)

IsLeapYear(y) == (y % 4 = 0 /\ y % 100 # 0) \/ y % 400 = 0

DaysBeforeYear(y) ==
    365 * (y - 1) + ((y - 1) \div 4) - ((y - 1) \div 100) + ((y - 1) \div 400)

CumulativeDays == <<0, 31, 59, 90, 120, 151, 181, 212, 243, 273, 304, 334>>

\* m is a month number 1..12
DaysBeforeMonth(y, m) ==
    CumulativeDays[m] + (IF m > 2 /\ IsLeapYear(y) THEN 1 ELSE 0)

\* new Date(year, monthIndex, day, 0, 0, 0, ms): monthIndex and day may lie
\* outside their calendar range and are carried over, as the constructor does.
MakeDate(year, monthIndex, day, ms) ==
    LET y == year + (monthIndex \div 12)
        m == (monthIndex % 12) + 1
    IN  << DaysBeforeYear(y) + DaysBeforeMonth(y, m) + (day - 1), ms >>

\* 23:59:59.999 as milliseconds of the day
EndOfDayMs == ((23 * 60 + 59) * 60 + 59) * 1000 + 999

DateLeq(a, b) == a[1] < b[1] \/ (a[1] = b[1] /\ a[2] <= b[2])

----------------------------------------------------------------------------
\* Text helpers

IsWhitespace(c) == c = " "

RECURSIVE TrimStart(_)
TrimStart(s) ==
    IF s # <<>> /\ IsWhitespace(Head(s)) THEN TrimStart(Tail(s)) ELSE s

RECURSIVE TrimEnd(_)
TrimEnd(s) ==
    IF s # <<>> /\ IsWhitespace(s[Len(s)])
    THEN TrimEnd(SubSeq(s, 1, Len(s) - 1))
    ELSE s

\* String.prototype.trim
trim(s) == TrimEnd(TrimStart(s))

----------------------------------------------------------------------------
\* Expense entity (src/src/domain/entities/Expense.ts)

\* The private constructor: the seven fields of an instance
Expense(id, description, amount, date, categoryId, createdAt, updatedAt) ==
    [ id |-> id, description |-> description, amount |-> amount, date |-> date,
      categoryId |-> categoryId, createdAt |-> createdAt, updatedAt |-> updatedAt ]

\* Expense.create that passes the current time as updatedAt too
Expense_create_StampsUpdatedAt(description, amount, date, categoryId, uuid, clock) ==
    IF description = <<>> \/ Len(trim(description)) = 0
    THEN [ ok |-> FALSE, error |-> "Description cannot be empty", value |-> <<>> ]
    ELSE IF amount <= 0
    THEN [ ok |-> FALSE, error |-> "Amount must be positive", value |-> <<>> ]
    ELSE [ ok |-> TRUE, error |-> "",
           value |-> << Expense(uuid, description, amount, date, categoryId,
                                clock, <<clock>>) >> ]

\* Expense.create without the trim in its first test
Expense_create_NoTrim(description, amount, date, categoryId, uuid, clock) ==
    IF description = <<>>
    THEN [ ok |-> FALSE, error |-> "Description cannot be empty", value |-> <<>> ]
    ELSE IF amount <= 0
    THEN [ ok |-> FALSE, error |-> "Amount must be positive", value |-> <<>> ]
    ELSE [ ok |-> TRUE, error |-> "",
           value |-> << Expense(uuid, description, amount, date, categoryId,
                                clock, <<>>) >> ]

\* Expense.create; uuid is the value randomUUID() returns, clock the value of
\* new Date().  value is << >> when the call throws.
Expense_create(description, amount, date, categoryId, uuid, clock) ==
    IF description = <<>> \/ Len(trim(description)) = 0
    THEN [ ok |-> FALSE, error |-> "Description cannot be empty", value |-> <<>> ]
    ELSE IF amount <= 0
    THEN [ ok |-> FALSE, error |-> "Amount must be positive", value |-> <<>> ]
    ELSE [ ok |-> TRUE, error |-> "",
           value |-> << Expense(uuid, description, amount, date, categoryId,
                                clock, <<>>) >> ]

\* Expense.fromDatabase that fills a missing updatedAt with createdAt
Expense_fromDatabase_DefaultsUpdatedAt(id, description, amount, date, categoryId, createdAt, updatedAt) ==
    Expense(id, description, amount, date, categoryId, createdAt,
            IF updatedAt = <<>> THEN <<createdAt>> ELSE updatedAt)

\* Expense.fromDatabase
Expense_fromDatabase(id, description, amount, date, categoryId, createdAt, updatedAt) ==
    Expense(id, description, amount, date, categoryId, createdAt, updatedAt)

\* Expense.update that leaves the date as it was
Expense_update_KeepsDate(this, description, amount, date, categoryId, clock) ==
    [ ok |-> TRUE, error |-> "",
      value |-> << [ this EXCEPT !.description = description,
                                 !.amount = amount,
                                 !.categoryId = categoryId,
                                 !.updatedAt = <<clock>> ] >> ]

\* Expense.update that stamps createdAt as well
Expense_update_StampsCreatedAt(this, description, amount, date, categoryId, clock) ==
    [ ok |-> TRUE, error |-> "",
      value |-> << [ this EXCEPT !.description = description,
                                 !.amount = amount,
                                 !.date = date,
                                 !.categoryId = categoryId,
                                 !.createdAt = clock,
                                 !.updatedAt = <<clock>> ] >> ]

\* Expense.update that validates as Expense.create does
Expense_update_Validating(this, description, amount, date, categoryId, clock) ==
    IF description = <<>> \/ Len(trim(description)) = 0
    THEN [ ok |-> FALSE, error |-> "Description cannot be empty", value |-> <<this>> ]
    ELSE IF amount <= 0
    THEN [ ok |-> FALSE, error |-> "Amount must be positive", value |-> <<this>> ]
    ELSE [ ok |-> TRUE, error |-> "",
           value |-> << [ this EXCEPT !.description = description,
                                      !.amount = amount,
                                      !.date = date,
                                      !.categoryId = categoryId,
                                      !.updatedAt = <<clock>> ] >> ]

\* Expense.update: it has no throw statement, so ok is always TRUE; value is
\* the instance after the call
Expense_update(this, description, amount, date, categoryId, clock) ==
    [ ok |-> TRUE, error |-> "",
      value |-> << [ this EXCEPT !.description = description,
                                 !.amount = amount,
                                 !.date = date,
                                 !.categoryId = categoryId,
                                 !.updatedAt = <<clock>> ] >> ]

\* Expense.toJSON
Expense_toJSON(this) ==
    [ id |-> this.id, description |-> this.description, amount |-> this.amount,
      date |-> this.date, categoryId |-> this.categoryId,
      createdAt |-> this.createdAt, updatedAt |-> this.updatedAt ]

----------------------------------------------------------------------------
\* Category entity (src/src/domain/entities/Category.ts)
\* A colour argument is optional text: << >> is undefined, << t >> the string t.

\* The private constructor: the four fields of an instance
Category(id, name, description, color) ==
    [ id |-> id, name |-> name, description |-> description, color |-> color ]

\* '#000000'
CategoryDefaultColor == <<"#", "0", "0", "0", "0", "0", "0">>

\* Category.create that tests the name for emptiness only
Category_create_NoTrim(name, description, color, uuid) ==
    IF name = <<>>
    THEN [ ok |-> FALSE, error |-> "Category name cannot be empty", value |-> <<>> ]
    ELSE [ ok |-> TRUE, error |-> "",
           value |-> << Category(uuid, name, description,
                                 IF color = <<>> \/ color[1] = <<>>
                                 THEN CategoryDefaultColor ELSE color[1]) >> ]

\* Category.create that defaults the colour only when it is undefined
Category_create_KeepsEmptyColor(name, description, color, uuid) ==
    IF name = <<>> \/ Len(trim(name)) = 0
    THEN [ ok |-> FALSE, error |-> "Category name cannot be empty", value |-> <<>> ]
    ELSE [ ok |-> TRUE, error |-> "",
           value |-> << Category(uuid, name, description,
                                 IF color = <<>>
                                 THEN CategoryDefaultColor ELSE color[1]) >> ]

\* Category.create
Category_create(name, description, color, uuid) ==
    IF name = <<>> \/ Len(trim(name)) = 0
    THEN [ ok |-> FALSE, error |-> "Category name cannot be empty", value |-> <<>> ]
    ELSE [ ok |-> TRUE, error |-> "",
           value |-> << Category(uuid, name, description,
                                 IF color = <<>> \/ color[1] = <<>>
                                 THEN CategoryDefaultColor ELSE color[1]) >> ]

----------------------------------------------------------------------------
\* The relational store behind the Prisma client
\* (src/prisma/migrations/20251214171945_initial/migration.sql)

\* A number written to "amount" DECIMAL(18,2): PostgreSQL rounds it to two
\* decimal places, half away from zero.  Amounts are in thousandths.
ToDecimal(amount) ==
    IF amount >= 0
    THEN ((amount + 5) \div 10) * 10
    ELSE -((((-amount) + 5) \div 10) * 10)

\* Decimal.toNumber(): the double nearest to a two-decimal value is the double
\* of the same decimal literal, so the value read back is the stored one.
toNumber(decimal) == decimal

\* updatedAt DateTime? @updatedAt: the client stamps the field with the current
\* time whenever a write does not supply it.
UpdatedAtAttribute == TRUE

\* "color" TEXT NOT NULL DEFAULT '#000000'
DefaultColor == <<"#", "0", "0", "0", "0", "0", "0">>

\* The table t with row r stored under key id
Put(t, id, r) == [ i \in (DOMAIN t) \cup {id} |-> IF i = id THEN r ELSE t[i] ]

\* The table t without key id
Remove(t, id) == [ i \in (DOMAIN t) \ {id} |-> t[i] ]

\* prisma.expense.create({ data }): expenses_pkey and expenses_category_id_fkey
\* are checked by the store; updatedAt is not part of data.
Prisma_expense_create(tbl, cats, data, clock) ==
    IF data.id \in DOMAIN tbl
    THEN [ ok |-> FALSE, error |-> "Unique constraint failed", expenses |-> tbl,
           row |-> <<>> ]
    ELSE IF data.categoryId \notin DOMAIN cats
    THEN [ ok |-> FALSE, error |-> "Foreign key constraint failed", expenses |-> tbl,
           row |-> <<>> ]
    ELSE LET r == [ id |-> data.id,
                    description |-> data.description,
                    amount |-> ToDecimal(data.amount),
                    date |-> data.date,
                    categoryId |-> data.categoryId,
                    createdAt |-> data.createdAt,
                    updatedAt |-> IF UpdatedAtAttribute THEN <<clock>> ELSE <<>> ]
         IN  [ ok |-> TRUE, error |-> "", expenses |-> Put(tbl, data.id, r),
               row |-> <<r>> ]

\* prisma.expense.update({ where: { id }, data }); an undefined updatedAt in
\* data means the field is not supplied.
Prisma_expense_update(tbl, cats, id, data, clock) ==
    IF id \notin DOMAIN tbl
    THEN [ ok |-> FALSE, error |-> "Record to update not found", expenses |-> tbl,
           row |-> <<>> ]
    ELSE IF data.categoryId \notin DOMAIN cats
    THEN [ ok |-> FALSE, error |-> "Foreign key constraint failed", expenses |-> tbl,
           row |-> <<>> ]
    ELSE LET r == [ tbl[id] EXCEPT
                      !.description = data.description,
                      !.amount = ToDecimal(data.amount),
                      !.date = data.date,
                      !.categoryId = data.categoryId,
                      !.updatedAt = IF data.updatedAt # <<>> THEN data.updatedAt
                                    ELSE IF UpdatedAtAttribute THEN <<clock>>
                                    ELSE @ ]
         IN  [ ok |-> TRUE, error |-> "", expenses |-> Put(tbl, id, r),
               row |-> <<r>> ]

\* prisma.expense.delete({ where: { id } })
Prisma_expense_delete(tbl, id) ==
    IF id \notin DOMAIN tbl
    THEN [ ok |-> FALSE, error |-> "Record to delete does not exist", expenses |-> tbl ]
    ELSE [ ok |-> TRUE, error |-> "", expenses |-> Remove(tbl, id) ]

\* prisma.expense.count({ where: { categoryId } })
Prisma_expense_count(tbl, categoryId) ==
    Cardinality({ i \in DOMAIN tbl : tbl[i].categoryId = categoryId })

\* prisma.expense.findUnique({ where: { id } })
Prisma_expense_findUnique(tbl, id) ==
    IF id \in DOMAIN tbl THEN << tbl[id] >> ELSE <<>>

\* prisma.category.findUnique({ where: { id } })
Prisma_category_findUnique(cats, id) ==
    IF id \in DOMAIN cats THEN << cats[id] >> ELSE <<>>

\* prisma.category.create over a table without the index categories_name_key
Prisma_category_create_NoIndex(cats, data, newId) ==
    LET r == [ id |-> newId,
               name |-> data.name,
               description |-> data.description,
               color |-> IF data.color = <<>> THEN DefaultColor
                         ELSE data.color[1] ]
    IN  [ ok |-> TRUE, error |-> "", categories |-> Put(cats, newId, r),
          row |-> <<r>> ]

\* prisma.category.create({ data }): the store generates the id, applies the
\* colour default and checks categories_name_key.
Prisma_category_create(cats, data, newId) ==
    IF \E c \in DOMAIN cats : cats[c].name = data.name
    THEN [ ok |-> FALSE, error |-> "Unique constraint failed", categories |-> cats,
           row |-> <<>> ]
    ELSE LET r == [ id |-> newId,
                    name |-> data.name,
                    description |-> data.description,
                    color |-> IF data.color = <<>> THEN DefaultColor
                              ELSE data.color[1] ]
         IN  [ ok |-> TRUE, error |-> "", categories |-> Put(cats, newId, r),
               row |-> <<r>> ]

\* prisma.category.delete over a relation without expenses_category_id_fkey
Prisma_category_delete_NoRestrict(cats, tbl, id) ==
    IF id \notin DOMAIN cats
    THEN [ ok |-> FALSE, error |-> "Record to delete does not exist",
           categories |-> cats ]
    ELSE [ ok |-> TRUE, error |-> "", categories |-> Remove(cats, id) ]

\* prisma.category.delete({ where: { id } }): expenses_category_id_fkey is
\* ON DELETE RESTRICT.
Prisma_category_delete(cats, tbl, id) ==
    IF id \notin DOMAIN cats
    THEN [ ok |-> FALSE, error |-> "Record to delete does not exist",
           categories |-> cats ]
    ELSE IF \E i \in DOMAIN tbl : tbl[i].categoryId = id
    THEN [ ok |-> FALSE, error |-> "Foreign key constraint failed",
           categories |-> cats ]
    ELSE [ ok |-> TRUE, error |-> "", categories |-> Remove(cats, id) ]

----------------------------------------------------------------------------
\* Repositories (src/src/config/environment.ts)

\* The row -> entity mapping every ExpenseRepository method ends with
RowToExpense(e) ==
    Expense_fromDatabase(e.id, e.description, toNumber(e.amount), e.date,
                         e.categoryId, e.createdAt, e.updatedAt)

\* ExpenseRepository.findById: << >> is null
ExpenseRepository_findById(tbl, id) ==
    LET expense == Prisma_expense_findUnique(tbl, id)
    IN  IF expense # <<>> THEN << RowToExpense(expense[1]) >> ELSE <<>>

\* ExpenseRepository.create that writes the row and then looks the category up
ExpenseRepository_create_WritesThenChecks(tbl, cats, expense, clock) ==
    LET row == [ id |-> expense.id, description |-> expense.description,
                 amount |-> ToDecimal(expense.amount), date |-> expense.date,
                 categoryId |-> expense.categoryId,
                 createdAt |-> expense.createdAt, updatedAt |-> <<clock>> ]
        categoryExists == Prisma_category_findUnique(cats, expense.categoryId)
    IN  IF categoryExists = <<>>
        THEN [ ok |-> FALSE, error |-> "Category does not exist",
               expenses |-> Put(tbl, expense.id, row), value |-> <<>> ]
        ELSE [ ok |-> TRUE, error |-> "", expenses |-> Put(tbl, expense.id, row),
               value |-> << RowToExpense(row) >> ]

\* ExpenseRepository.create
ExpenseRepository_create(tbl, cats, expense, clock) ==
    LET categoryExists == Prisma_category_findUnique(cats, expense.categoryId)
    IN  IF categoryExists = <<>>
        THEN [ ok |-> FALSE, error |-> "Category does not exist", expenses |-> tbl,
               value |-> <<>> ]
        ELSE LET created == Prisma_expense_create(tbl, cats,
                              [ id |-> expense.id,
                                description |-> expense.description,
                                amount |-> expense.amount,
                                date |-> expense.date,
                                categoryId |-> expense.categoryId,
                                createdAt |-> expense.createdAt ], clock)
             IN  IF ~created.ok
                 THEN [ ok |-> FALSE, error |-> created.error, expenses |-> tbl,
                        value |-> <<>> ]
                 ELSE [ ok |-> TRUE, error |-> "", expenses |-> created.expenses,
                        value |-> << RowToExpense(created.row[1]) >> ]

\* ExpenseRepository.update without the lookup of the category
ExpenseRepository_update_NoLookup(tbl, cats, expense, clock) ==
    LET updated == Prisma_expense_update(tbl, cats, expense.id,
                     [ description |-> expense.description,
                       amount |-> expense.amount,
                       date |-> expense.date,
                       categoryId |-> expense.categoryId,
                       updatedAt |-> expense.updatedAt ], clock)
    IN  IF ~updated.ok
        THEN [ ok |-> FALSE, error |-> updated.error, expenses |-> tbl,
               value |-> <<>> ]
        ELSE [ ok |-> TRUE, error |-> "", expenses |-> updated.expenses,
               value |-> << RowToExpense(updated.row[1]) >> ]

\* ExpenseRepository.update
ExpenseRepository_update(tbl, cats, expense, clock) ==
    LET categoryExists == Prisma_category_findUnique(cats, expense.categoryId)
    IN  IF categoryExists = <<>>
        THEN [ ok |-> FALSE, error |-> "Category does not exist", expenses |-> tbl,
               value |-> <<>> ]
        ELSE LET updated == Prisma_expense_update(tbl, cats, expense.id,
                              [ description |-> expense.description,
                                amount |-> expense.amount,
                                date |-> expense.date,
                                categoryId |-> expense.categoryId,
                                updatedAt |-> expense.updatedAt ], clock)
             IN  IF ~updated.ok
                 THEN [ ok |-> FALSE, error |-> updated.error, expenses |-> tbl,
                        value |-> <<>> ]
                 ELSE [ ok |-> TRUE, error |-> "", expenses |-> updated.expenses,
                        value |-> << RowToExpense(updated.row[1]) >> ]

\* ExpenseRepository.create from its second await on: the category lookup has
\* returned a row and prisma.expense.create runs against the tables as they
\* are now
ExpenseRepository_create_Write(tbl, cats, expense, clock) ==
    LET created == Prisma_expense_create(tbl, cats,
                     [ id |-> expense.id,
                       description |-> expense.description,
                       amount |-> expense.amount,
                       date |-> expense.date,
                       categoryId |-> expense.categoryId,
                       createdAt |-> expense.createdAt ], clock)
    IN  IF ~created.ok
        THEN [ ok |-> FALSE, error |-> created.error, expenses |-> tbl,
               value |-> <<>> ]
        ELSE [ ok |-> TRUE, error |-> "", expenses |-> created.expenses,
               value |-> << RowToExpense(created.row[1]) >> ]

\* ExpenseRepository.update whose write sends the description and the amount
\* only
ExpenseRepository_update_WriteSomeFields(tbl, cats, expense, clock) ==
    IF expense.id \notin DOMAIN tbl
    THEN [ ok |-> FALSE, error |-> "Record to update not found", expenses |-> tbl,
           value |-> <<>> ]
    ELSE LET updated == Prisma_expense_update(tbl, cats, expense.id,
                          [ description |-> expense.description,
                            amount |-> expense.amount,
                            date |-> tbl[expense.id].date,
                            categoryId |-> tbl[expense.id].categoryId,
                            updatedAt |-> expense.updatedAt ], clock)
         IN  [ ok |-> updated.ok, error |-> updated.error,
               expenses |-> updated.expenses,
               value |-> IF updated.ok THEN << RowToExpense(updated.row[1]) >>
                         ELSE <<>> ]

\* ExpenseRepository.update from its second await on
ExpenseRepository_update_Write(tbl, cats, expense, clock) ==
    LET updated == Prisma_expense_update(tbl, cats, expense.id,
                     [ description |-> expense.description,
                       amount |-> expense.amount,
                       date |-> expense.date,
                       categoryId |-> expense.categoryId,
                       updatedAt |-> expense.updatedAt ], clock)
    IN  IF ~updated.ok
        THEN [ ok |-> FALSE, error |-> updated.error, expenses |-> tbl,
               value |-> <<>> ]
        ELSE [ ok |-> TRUE, error |-> "", expenses |-> updated.expenses,
               value |-> << RowToExpense(updated.row[1]) >> ]

\* ExpenseRepository.delete
ExpenseRepository_delete(tbl, id) == Prisma_expense_delete(tbl, id)

\* Category.toJSON (src/src/domain/entities/Category.ts)
Category_toJSON(this) ==
    [ id |-> this.id, name |-> this.name, description |-> this.description,
      color |-> this.color ]

\* Category.fromDatabase that applies the colour default of Category.create
Category_fromDatabase_DefaultsColor(id, name, description, color) ==
    [ id |-> id, name |-> name, description |-> description,
      color |-> IF color = <<>> THEN CategoryDefaultColor ELSE color ]

\* Category.fromDatabase (src/src/domain/entities/Category.ts)
Category_fromDatabase(id, name, description, color) ==
    [ id |-> id, name |-> name, description |-> description, color |-> color ]

\* CategoryRepository.create
CategoryRepository_create(cats, data, newId) ==
    LET category == Prisma_category_create(cats,
                      [ name |-> data.name, description |-> data.description,
                        color |-> data.color ], newId)
    IN  IF ~category.ok
        THEN [ ok |-> FALSE, error |-> category.error, categories |-> cats,
               value |-> <<>> ]
        ELSE [ ok |-> TRUE, error |-> "", categories |-> category.categories,
               value |-> << Category_fromDatabase(category.row[1].id,
                                                  category.row[1].name,
                                                  category.row[1].description,
                                                  category.row[1].color) >> ]

\* CategoryRepository.delete that counts every expense, not those of the category
CategoryRepository_delete_CountsAll(cats, tbl, id) ==
    LET expenseCount == Cardinality(DOMAIN tbl)
    IN  IF expenseCount > 0
        THEN [ ok |-> FALSE, error |-> "Cannot delete category", count |-> expenseCount,
               categories |-> cats ]
        ELSE LET deleted == Prisma_category_delete(cats, tbl, id)
             IN  [ ok |-> deleted.ok, error |-> deleted.error, count |-> 0,
                   categories |-> deleted.categories ]

\* CategoryRepository.delete without its reference count, over a relation
\* that declares no constraint
CategoryRepository_delete_Unguarded(cats, tbl, id) ==
    IF id \notin DOMAIN cats
    THEN [ ok |-> FALSE, error |-> "Record to delete does not exist", count |-> 0,
           categories |-> cats ]
    ELSE [ ok |-> TRUE, error |-> "", count |-> 0, categories |-> Remove(cats, id) ]

\* CategoryRepository.delete; count is the number the error message reports
CategoryRepository_delete(cats, tbl, id) ==
    LET expenseCount == Prisma_expense_count(tbl, id)
    IN  IF expenseCount > 0
        THEN [ ok |-> FALSE, error |-> "Cannot delete category", count |-> expenseCount,
               categories |-> cats ]
        ELSE LET deleted == Prisma_category_delete(cats, tbl, id)
             IN  [ ok |-> deleted.ok, error |-> deleted.error, count |-> 0,
                   categories |-> deleted.categories ]

----------------------------------------------------------------------------
\* Mutation resolvers (src/src/presentation/graphql/resolvers/mutations/index.ts)

\* expenseMutations.createExpense; new Date(input.date) copies the instant.
\* entity is the instance the resolver built, << >> if it built none.
createExpense(tbl, cats, input, uuid, clock) ==
    LET expense == Expense_create(input.description, input.amount, input.date,
                                  input.categoryId, uuid, clock)
    IN  IF ~expense.ok
        THEN [ ok |-> FALSE, error |-> expense.error, expenses |-> tbl,
               value |-> <<>>, entity |-> <<>> ]
        ELSE LET r == ExpenseRepository_create(tbl, cats, expense.value[1], clock)
             IN  [ ok |-> r.ok, error |-> r.error, expenses |-> r.expenses,
                   value |-> r.value, entity |-> expense.value ]

\* updateExpense that skips findById and updates an instance built from its
\* arguments
updateExpense_NoLookup(tbl, cats, id, input, clock) ==
    LET u == Expense_update(Expense(id, input.description, input.amount, input.date,
                                    input.categoryId, clock, <<>>),
                            input.description, input.amount, input.date,
                            input.categoryId, clock)
        r == ExpenseRepository_update(tbl, cats, u.value[1], clock)
    IN  [ ok |-> r.ok, error |-> r.error, expenses |-> r.expenses,
          value |-> r.value, entity |-> u.value ]

\* expenseMutations.updateExpense; entity is the instance `existing` as the
\* resolver leaves it, << >> if findById returned null.
updateExpense(tbl, cats, id, input, clock) ==
    LET existing == ExpenseRepository_findById(tbl, id)
    IN  IF existing = <<>>
        THEN [ ok |-> FALSE, error |-> "Expense not found", expenses |-> tbl,
               value |-> <<>>, entity |-> <<>> ]
        ELSE LET u == Expense_update(existing[1], input.description, input.amount,
                                     input.date, input.categoryId, clock)
             IN  IF ~u.ok
                 THEN [ ok |-> FALSE, error |-> u.error, expenses |-> tbl,
                        value |-> <<>>, entity |-> existing ]
                 ELSE LET r == ExpenseRepository_update(tbl, cats, u.value[1], clock)
                      IN  [ ok |-> r.ok, error |-> r.error, expenses |-> r.expenses,
                            value |-> r.value, entity |-> u.value ]

\* expenseMutations.deleteExpense
deleteExpense(tbl, id) == ExpenseRepository_delete(tbl, id)

\* categoryMutations.createCategory (src/src/presentation/graphql/resolvers/index.ts)
createCategory(cats, input, newId) == CategoryRepository_create(cats, input, newId)

----------------------------------------------------------------------------
\* Query resolvers (src/src/presentation/graphql/resolvers/queries/expenseQueries.ts)

\* orderBy: { date: 'desc' } over a set of rows
RECURSIVE OrderByDateDesc(_)
OrderByDateDesc(rows) ==
    IF rows = {} THEN <<>>
    ELSE LET newest == CHOOSE r \in rows : \A o \in rows : DateLeq(o.date, r.date)
         IN  <<newest>> \o OrderByDateDesc(rows \ {newest})

\* ExpenseRepository.findAll (src/src/config/environment.ts)
ExpenseRepository_findAll(tbl) ==
    LET found == { tbl[i] : i \in DOMAIN tbl }
        ordered == OrderByDateDesc(found)
    IN  [ k \in 1..Len(ordered) |-> RowToExpense(ordered[k]) ]

\* findByCategory whose findMany has no where clause
ExpenseRepository_findByCategory_Unfiltered(tbl, categoryId) ==
    LET found == { tbl[i] : i \in DOMAIN tbl }
        ordered == OrderByDateDesc(found)
    IN  [ k \in 1..Len(ordered) |-> RowToExpense(ordered[k]) ]

\* ExpenseRepository.findByCategory (src/src/config/environment.ts)
ExpenseRepository_findByCategory(tbl, categoryId) ==
    LET found == { tbl[i] : i \in { j \in DOMAIN tbl :
                                     tbl[j].categoryId = categoryId } }
        ordered == OrderByDateDesc(found)
    IN  [ k \in 1..Len(ordered) |-> RowToExpense(ordered[k]) ]

\* findByMonthAndYear whose range ends at the first instant of the last day
ExpenseRepository_findByMonthAndYear_EndAtMidnight(tbl, month, year) ==
    LET startDate == MakeDate(year, month - 1, 1, 0)
        endDate == MakeDate(year, month, 0, 0)
        found == { tbl[i] : i \in { j \in DOMAIN tbl :
                                     /\ DateLeq(startDate, tbl[j].date)
                                     /\ DateLeq(tbl[j].date, endDate) } }
        ordered == OrderByDateDesc(found)
    IN  [ k \in 1..Len(ordered) |-> RowToExpense(ordered[k]) ]

\* ExpenseRepository.findByMonthAndYear (src/src/config/environment.ts)
ExpenseRepository_findByMonthAndYear(tbl, month, year) ==
    LET startDate == MakeDate(year, month - 1, 1, 0)
        endDate == MakeDate(year, month, 0, EndOfDayMs)
        found == { tbl[i] : i \in { j \in DOMAIN tbl :
                                     /\ DateLeq(startDate, tbl[j].date)
                                     /\ DateLeq(tbl[j].date, endDate) } }
        ordered == OrderByDateDesc(found)
    IN  [ k \in 1..Len(ordered) |-> RowToExpense(ordered[k]) ]

\* The names as a list indexed from zero, read with the month number
MONTH_NAMES_ZeroBased ==
    << "February", "March", "April", "May", "June", "July", "August",
       "September", "October", "November", "December", "undefined" >>

MONTH_NAMES ==
    << "January", "February", "March", "April", "May", "June",
       "July", "August", "September", "October", "November", "December" >>

\* The reduce starting from its second item
RECURSIVE SumAmounts_SkipsFirst(_)
SumAmounts_SkipsFirst(items) ==
    IF Len(items) <= 1 THEN 0
    ELSE SumAmounts_SkipsFirst(SubSeq(items, 1, Len(items) - 1))
           + items[Len(items)].amount

\* items.reduce((sum, item) => sum + item.amount, 0)
RECURSIVE SumAmounts(_)
SumAmounts(items) ==
    IF items = <<>> THEN 0
    ELSE SumAmounts(SubSeq(items, 1, Len(items) - 1)) + items[Len(items)].amount

\* expensesMonthlyReport without the test of the month
expensesMonthlyReport_Unvalidated(tbl, month, year, salary, additionalIncome) ==
    LET found == ExpenseRepository_findByMonthAndYear(tbl, month, year)
        totalExpenses == SumAmounts(found)
        totalAdditionalIncome == SumAmounts(additionalIncome)
        netIncome == (salary + totalAdditionalIncome) - totalExpenses
    IN  [ ok |-> TRUE, error |-> "",
          value |-> << [ month |-> IF month \in 1..12 THEN MONTH_NAMES[month]
                                   ELSE "undefined",
                         year |-> year,
                         salary |-> salary,
                         additionalIncome |-> additionalIncome,
                         totalExpenses |-> totalExpenses,
                         netIncome |-> netIncome,
                         expenses |-> found ] >> ]

\* expensesMonthlyReport that leaves the additional income out of netIncome
expensesMonthlyReport_NoIncome(tbl, month, year, salary, additionalIncome) ==
    IF month < 1 \/ month > 12
    THEN [ ok |-> FALSE, error |-> "Month must be between 1 and 12", value |-> <<>> ]
    ELSE LET found == ExpenseRepository_findByMonthAndYear(tbl, month, year)
             totalExpenses == SumAmounts(found)
             netIncome == salary - totalExpenses
         IN  [ ok |-> TRUE, error |-> "",
               value |-> << [ month |-> MONTH_NAMES[month],
                              year |-> year,
                              salary |-> salary,
                              additionalIncome |-> additionalIncome,
                              totalExpenses |-> totalExpenses,
                              netIncome |-> netIncome,
                              expenses |-> found ] >> ]

\* expenseQueries.expensesMonthlyReport
expensesMonthlyReport(tbl, month, year, salary, additionalIncome) ==
    IF month < 1 \/ month > 12
    THEN [ ok |-> FALSE, error |-> "Month must be between 1 and 12", value |-> <<>> ]
    ELSE LET found == ExpenseRepository_findByMonthAndYear(tbl, month, year)
             totalExpenses == SumAmounts(found)
             totalAdditionalIncome == SumAmounts(additionalIncome)
             netIncome == (salary + totalAdditionalIncome) - totalExpenses
         IN  [ ok |-> TRUE, error |-> "",
               value |-> << [ month |-> MONTH_NAMES[month],
                              year |-> year,
                              salary |-> salary,
                              additionalIncome |-> additionalIncome,
                              totalExpenses |-> totalExpenses,
                              netIncome |-> netIncome,
                              expenses |-> found ] >> ]

----------------------------------------------------------------------------
\* The sums of the report in the arithmetic of the JavaScript number type
\* (IEEE 754 binary64, round to nearest, ties to even).  A number is
\* [ sign, m, e ]: sign is 1 or -1, m the significand as Precision bits from
\* the most significant (<< >> for zero), and the value is sign * m * 2^e.
\* Money is given in cents; the values met here are far from the subnormal
\* and the overflow range.

\* The bits of the significand of a number
Precision == 53

Zeros(n) == [ i \in 1..n |-> 0 ]

\* A bit sequence without its leading zeros
StripZeros(b) ==
    LET ones == { i \in 1..Len(b) : b[i] = 1 }
    IN  IF ones = {} THEN <<>>
        ELSE SubSeq(b, CHOOSE i \in ones : \A j \in ones : i <= j, Len(b))

\* The bit sequence b extended with leading zeros to n bits
PadLeft(b, n) == Zeros(n - Len(b)) \o b

\* The carry into position i of a + b, bit sequences of equal length: some
\* less significant position generates one (1 + 1) and every position between
\* passes it on (0 + 1 or 1 + 0)
CarryInto(a, b, i) ==
    \E j \in (i + 1)..Len(a) :
        /\ a[j] + b[j] = 2
        /\ \A k \in (i + 1)..(j - 1) : a[k] + b[k] = 1

\* a + b for bit sequences of equal length: the carry out, then the sum's bits
AddAligned(a, b) ==
    [ i \in 1..(Len(a) + 1) |->
        IF i = 1 THEN (IF CarryInto(a, b, 0) THEN 1 ELSE 0)
        ELSE (a[i - 1] + b[i - 1] + (IF CarryInto(a, b, i - 1) THEN 1 ELSE 0)) % 2 ]

\* The borrow from position i of a - b: some less significant position needs
\* one (0 - 1) and every position between passes it on (0 - 0 or 1 - 1)
BorrowFrom(a, b, i) ==
    \E j \in (i + 1)..Len(a) :
        /\ a[j] < b[j]
        /\ \A k \in (i + 1)..(j - 1) : a[k] = b[k]

\* a - b for bit sequences of equal length, a >= b
SubAligned(a, b) ==
    [ i \in 1..Len(a) |->
        (a[i] - b[i] - (IF BorrowFrom(a, b, i) THEN 1 ELSE 0)) % 2 ]

\* a < b for bit sequences of equal length
LessAligned(a, b) ==
    \E i \in 1..Len(a) : a[i] < b[i] /\ \A j \in 1..(i - 1) : a[j] = b[j]

\* The number nearest to sign * bits * 2^e, ties to even
Round(sign, bits, e) ==
    LET b == StripZeros(bits)
        n == Len(b)
    IN  IF n = 0 THEN [ sign |-> 1, m |-> <<>>, e |-> 0 ]
        ELSE IF n <= Precision
        THEN [ sign |-> sign, m |-> b \o Zeros(Precision - n), e |-> e - (Precision - n) ]
        ELSE LET kept == SubSeq(b, 1, Precision)
                 guard == b[Precision + 1]
                 sticky == \E i \in (Precision + 2)..n : b[i] = 1
                 up == guard = 1 /\ (sticky \/ kept[Precision] = 1)
                 r == IF up
                      THEN StripZeros(AddAligned(kept, Zeros(Precision - 1) \o <<1>>))
                      ELSE kept
             IN  [ sign |-> sign, m |-> SubSeq(r, 1, Precision),
                   e |-> e + (n - Precision) + (Len(r) - Precision) ]

\* The binary digits of a natural number
RECURSIVE IntegerBits(_)
IntegerBits(q) == IF q = 0 THEN <<>> ELSE IntegerBits(q \div 2) \o << q % 2 >>

\* 2^i modulo 100
RECURSIVE PowerOfTwoMod100(_)
PowerOfTwoMod100(i) ==
    IF i = 0 THEN 1
    ELSE LET h == PowerOfTwoMod100(i \div 2)
         IN  (h * h * (IF i % 2 = 1 THEN 2 ELSE 1)) % 100

\* The first n binary digits of r / 100 after the point, 0 <= r < 100
FractionBits(r, n) ==
    [ i \in 1..n |-> (2 * ((r * PowerOfTwoMod100(i - 1)) % 100)) \div 100 ]

\* What is left of r / 100 after n binary digits, as a numerator over 100
FractionRest(r, n) == (r * PowerOfTwoMod100(n)) % 100

\* Fraction digits that leave over Precision + 1 significant digits of any
\* amount of a cent or more
FractionDigits == Precision + 9

\* The number a decimal value of c cents denotes: Decimal.toNumber() of a
\* DECIMAL(18,2) value, and a Float argument written with two decimals
NumberOfCents(c) ==
    LET a == IF c < 0 THEN -c ELSE c
        digits == IntegerBits(a \div 100) \o FractionBits(a % 100, FractionDigits)
        rest == IF FractionRest(a % 100, FractionDigits) = 0 THEN 0 ELSE 1
    IN  Round(IF c < 0 THEN -1 ELSE 1, digits \o <<rest>>, -(FractionDigits + 1))

\* x + y
NumberAdd(x, y) ==
    IF x.m = <<>> THEN y
    ELSE IF y.m = <<>> THEN x
    ELSE LET e == IF x.e < y.e THEN x.e ELSE y.e
             xb == x.m \o Zeros(x.e - e)
             yb == y.m \o Zeros(y.e - e)
             n == (IF Len(xb) < Len(yb) THEN Len(yb) ELSE Len(xb))
             a == PadLeft(xb, n)
             b == PadLeft(yb, n)
         IN  IF x.sign = y.sign THEN Round(x.sign, AddAligned(a, b), e)
             ELSE IF LessAligned(a, b) THEN Round(y.sign, SubAligned(b, a), e)
             ELSE Round(x.sign, SubAligned(a, b), e)

\* x - y
NumberSubtract(x, y) == NumberAdd(x, [ y EXCEPT !.sign = -y.sign ])

\* cents.reduce((sum, item) => sum + item, 0) over amounts given in cents
RECURSIVE NumberSum(_)
NumberSum(cents) ==
    IF cents = <<>> THEN NumberOfCents(0)
    ELSE NumberAdd(NumberSum(SubSeq(cents, 1, Len(cents) - 1)),
                   NumberOfCents(cents[Len(cents)]))

\* totalExpenses and netIncome as expensesMonthlyReport computes them from
\* the amounts of the month's expenses, the salary and the additional incomes
ReportSums(amounts, salary, incomes) ==
    LET totalExpenses == NumberSum(amounts)
        totalAdditionalIncome == NumberSum(incomes)
        netIncome == NumberSubtract(NumberAdd(NumberOfCents(salary),
                                              totalAdditionalIncome),
                                    totalExpenses)
    IN  [ totalExpenses |-> totalExpenses, netIncome |-> netIncome ]

----------------------------------------------------------------------------
\* Sample inputs

\* (description, amount, date) of an expense input: two valid ones, then one
\* for each way of being invalid
ExpenseFieldSamples ==
    { << <<"a">>, 1500, MakeDate(2024, 1, 29, EndOfDayMs) >>,
      << <<"a">>, 4, MakeDate(2024, 2, 1, 0) >>,
      << <<>>, 1500, MakeDate(2024, 1, 29, EndOfDayMs) >>,
      << <<" ">>, 1500, MakeDate(2024, 2, 1, 0) >>,
      << <<"a">>, 0, MakeDate(2024, 1, 29, EndOfDayMs) >>,
      << <<"a">>, -1000, MakeDate(2024, 2, 1, 0) >>,
      << <<>>, 0, MakeDate(2024, 1, 29, EndOfDayMs) >> }

\* The input object of createExpense / updateExpense
ExpenseInputs ==
    { [ description |-> f[1], amount |-> f[2], date |-> f[3], categoryId |-> c ] :
        f \in ExpenseFieldSamples, c \in CategoryIds }

\* The input object of createCategory: name "" with a colour, name "F" without
CategoryInputs ==
    { [ name |-> <<>>, description |-> <<>>, color |-> << <<"#", "f">> >> ],
      [ name |-> <<"F">>, description |-> <<>>, color |-> <<>> ] }

\* Report arguments; money in thousandths
ReportMonths == { 0, 1, 2, 3, 12, 13 }
ReportYears == { 2024 }
Salaries == { 2000 * 1000 }
AdditionalIncomes ==
    { <<>>, << [ description |-> <<"b">>, amount |-> 300 * 1000 ] >> }

\* Which unused identifier a generator returns is immaterial: the least is taken
Fresh(pool, used) == { u \in pool \ used : \A v \in pool \ used : u <= v }

\* crypto.randomUUID()
randomUUID(used) == Fresh(ExpenseIds, used)

----------------------------------------------------------------------------
\* State machine of the GraphQL API: every request runs to completion before
\* the next one starts.

\* The outcome of an operation: error is "" on success, value holds what the
\* operation returned, args what identifies the call, entity the Expense
\* instance a successful operation worked on (<< >> if none: a failed call
\* drops its instance with the exception).
Outcome(op, args, error, value, entity) ==
    [ op |-> op, args |-> args, error |-> error, value |-> value, entity |-> entity ]

Init ==
    /\ expenses = << >>
    /\ categories = << >>
    /\ usedIds = {}
    /\ usedCatIds = {}
    /\ now = 0
    /\ ent = <<>>
    /\ inflight = {}
    /\ last = Outcome("init", <<>>, "", <<>>, <<>>)

\* Time passes between two readings of the clock
Tick ==
    /\ now < MaxTime
    /\ now' = now + 1
    /\ UNCHANGED <<expenses, categories, usedIds, usedCatIds, ent, inflight, last>>

\* mutation createExpense(input)
CreateExpense ==
    \E input \in ExpenseInputs, uuid \in randomUUID(usedIds) :
        LET r == createExpense(expenses, categories, input, uuid, now)
        IN  /\ expenses' = r.expenses
            /\ usedIds' = IF Expense_create(input.description, input.amount, input.date,
                                            input.categoryId, uuid, now).ok
                          THEN usedIds \cup {uuid} ELSE usedIds
            /\ last' = Outcome("createExpense", <<>>, r.error, r.value,
                               IF r.ok THEN r.entity ELSE <<>>)
            /\ UNCHANGED <<categories, usedCatIds, now, ent, inflight>>

\* mutation updateExpense(id, input)
UpdateExpense ==
    \E id \in ExpenseIds, input \in ExpenseInputs :
        LET r == updateExpense(expenses, categories, id, input, now)
        IN  /\ expenses' = r.expenses
            /\ last' = Outcome("updateExpense", <<id>>, r.error, r.value,
                               IF r.ok THEN r.entity ELSE <<>>)
            /\ UNCHANGED <<categories, usedIds, usedCatIds, now, ent, inflight>>

\* mutation deleteExpense(id)
DeleteExpense ==
    \E id \in ExpenseIds :
        LET r == deleteExpense(expenses, id)
        IN  /\ expenses' = r.expenses
            /\ last' = Outcome("deleteExpense", <<id>>, r.error, <<>>, <<>>)
            /\ UNCHANGED <<categories, usedIds, usedCatIds, now, ent, inflight>>

\* mutation createCategory(input)
CreateCategory ==
    \E input \in CategoryInputs, newId \in Fresh(CategoryIds, usedCatIds) :
        LET r == createCategory(categories, input, newId)
        IN  /\ categories' = r.categories
            /\ usedCatIds' = IF r.ok THEN usedCatIds \cup {newId} ELSE usedCatIds
            /\ last' = Outcome("createCategory", <<>>, r.error, r.value, <<>>)
            /\ UNCHANGED <<expenses, usedIds, now, ent, inflight>>

\* The query, deleting the expenses it has reported
ExpensesMonthlyReport_Consuming ==
    \E month \in ReportMonths, year \in ReportYears, salary \in Salaries,
       additionalIncome \in AdditionalIncomes :
        LET r == expensesMonthlyReport(expenses, month, year, salary, additionalIncome)
            reported == IF r.ok THEN { r.value[1].expenses[k].id :
                                         k \in 1..Len(r.value[1].expenses) }
                        ELSE {}
        IN  /\ last' = Outcome("expensesMonthlyReport",
                               <<month, year, salary, additionalIncome>>,
                               r.error, r.value, <<>>)
            /\ expenses' = [ i \in (DOMAIN expenses) \ reported |-> expenses[i] ]
            /\ UNCHANGED <<categories, usedIds, usedCatIds, now, ent, inflight>>

\* query expensesMonthlyReport(month, year, salary, additionalIncome)
ExpensesMonthlyReport ==
    \E month \in ReportMonths, year \in ReportYears, salary \in Salaries,
       additionalIncome \in AdditionalIncomes :
        LET r == expensesMonthlyReport(expenses, month, year, salary, additionalIncome)
        IN  /\ last' = Outcome("expensesMonthlyReport",
                               <<month, year, salary, additionalIncome>>,
                               r.error, r.value, <<>>)
            /\ UNCHANGED <<expenses, categories, usedIds, usedCatIds, now, ent, inflight>>

Next ==
    \/ Tick
    \/ CreateExpense
    \/ UpdateExpense
    \/ DeleteExpense
    \/ CreateCategory

Spec == Init /\ [][Next]_vars

\* The API with its report query, the clock standing still
NextReport ==
    \/ CreateExpense
    \/ UpdateExpense
    \/ DeleteExpense
    \/ CreateCategory
    \/ ExpensesMonthlyReport

SpecReport == Init /\ [][NextReport]_vars

----------------------------------------------------------------------------
\* State machine of the repositories, called directly with any Expense
\* instance a caller can hold; every call runs to completion before the next.

\* (description, amount, date) of the instances handed to the repository:
\* one that Expense.create accepts and one that only Expense.fromDatabase or
\* Expense.update can produce
RepositoryFieldSamples ==
    { << <<"a">>, 1500, MakeDate(2024, 1, 29, EndOfDayMs) >>,
      << <<>>, 4, MakeDate(2024, 2, 1, 0) >> }

\* Instances handed to ExpenseRepository.create, built at the current time
CreatableExpenses ==
    { Expense(id, f[1], f[2], f[3], c, now, <<>>) :
        id \in ExpenseIds, f \in RepositoryFieldSamples, c \in CategoryIds }

\* Instances handed to ExpenseRepository.update: updatedAt absent, or stamped
\* by Expense.update at the current time
UpdatableExpenses ==
    { Expense(id, f[1], f[2], f[3], c, 0, u) :
        id \in ExpenseIds, f \in RepositoryFieldSamples, c \in CategoryIds,
        u \in { <<>>, <<now>> } }

\* ExpenseRepository.create(expense)
RepositoryCreate(expense) ==
    LET r == ExpenseRepository_create(expenses, categories, expense, now)
    IN  /\ expenses' = r.expenses
        /\ last' = Outcome("ExpenseRepository.create", <<expense.id, expense>>, r.error,
                           r.value, <<>>)
        /\ UNCHANGED <<categories, usedIds, usedCatIds, now, ent, inflight>>

ExpenseRepositoryCreate == \E expense \in CreatableExpenses : RepositoryCreate(expense)

\* ExpenseRepository.update(expense)
RepositoryUpdate(expense) ==
    LET r == ExpenseRepository_update(expenses, categories, expense, now)
    IN  /\ expenses' = r.expenses
        /\ last' = Outcome("ExpenseRepository.update", <<expense.id, expense>>, r.error,
                           r.value, <<>>)
        /\ UNCHANGED <<categories, usedIds, usedCatIds, now, ent, inflight>>

ExpenseRepositoryUpdate == \E expense \in UpdatableExpenses : RepositoryUpdate(expense)

\* ExpenseRepository.delete(id)
ExpenseRepositoryDelete ==
    \E id \in ExpenseIds :
        LET r == ExpenseRepository_delete(expenses, id)
        IN  /\ expenses' = r.expenses
            /\ last' = Outcome("ExpenseRepository.delete", <<id>>, r.error, <<>>, <<>>)
            /\ UNCHANGED <<categories, usedIds, usedCatIds, now, ent, inflight>>

\* CategoryRepository.create(data)
CategoryRepositoryCreate ==
    \E data \in CategoryInputs, newId \in Fresh(CategoryIds, usedCatIds) :
        LET r == CategoryRepository_create(categories, data, newId)
        IN  /\ categories' = r.categories
            /\ usedCatIds' = IF r.ok THEN usedCatIds \cup {newId} ELSE usedCatIds
            /\ last' = Outcome("CategoryRepository.create", <<data.name>>, r.error,
                               r.value, <<>>)
            /\ UNCHANGED <<expenses, usedIds, now, ent, inflight>>

\* CategoryRepository.delete(id); value is the count the error reports
RepositoryDeleteCategory(id) ==
    LET r == CategoryRepository_delete(categories, expenses, id)
    IN  /\ categories' = r.categories
        /\ last' = Outcome("CategoryRepository.delete", <<id>>, r.error,
                           <<r.count>>, <<>>)
        /\ UNCHANGED <<expenses, usedIds, usedCatIds, now, ent, inflight>>

CategoryRepositoryDelete == \E id \in CategoryIds : RepositoryDeleteCategory(id)

NextRepository ==
    \/ Tick
    \/ ExpenseRepositoryCreate
    \/ ExpenseRepositoryUpdate
    \/ ExpenseRepositoryDelete
    \/ CategoryRepositoryCreate
    \/ CategoryRepositoryDelete

SpecRepository == Init /\ [][NextRepository]_vars

----------------------------------------------------------------------------
\* State machine of one Expense instance: a caller creates instances and
\* updates the one it holds.

\* Business dates: the last instant of February 2024 and the first of March
Dates == { MakeDate(2024, 1, 29, EndOfDayMs), MakeDate(2024, 2, 1, 0) }

\* Arguments of Expense.create and Expense.update
EntityArguments == Descriptions \X Amounts \X Dates \X CategoryIds

\* Expense.create(description, amount, date, categoryId)
EntityCreate(a) ==
    \E uuid \in randomUUID(usedIds) :
        LET r == Expense_create(a[1], a[2], a[3], a[4], uuid, now)
        IN  /\ ent' = IF r.ok THEN r.value ELSE ent
            /\ usedIds' = IF r.ok THEN usedIds \cup {uuid} ELSE usedIds
            /\ last' = Outcome("Expense.create", a, r.error, r.value, <<>>)
            /\ UNCHANGED <<expenses, categories, usedCatIds, now, inflight>>

ExpenseCreate == \E a \in EntityArguments : EntityCreate(a)

\* ent.update(description, amount, date, categoryId)
EntityUpdate(a) ==
    /\ ent # <<>>
    /\ LET r == Expense_update(ent[1], a[1], a[2], a[3], a[4], now)
       IN  /\ ent' = r.value
           /\ last' = Outcome("Expense.update", a, r.error, r.value, <<>>)
           /\ UNCHANGED <<expenses, categories, usedIds, usedCatIds, now, inflight>>

ExpenseUpdate == \E a \in EntityArguments : EntityUpdate(a)

NextEntity ==
    \/ Tick
    \/ ExpenseCreate
    \/ ExpenseUpdate

SpecEntity == Init /\ [][NextEntity]_vars

----------------------------------------------------------------------------
\* State machine of the month query: expenses dated around the ends of months
\* are stored through the repository and looked up by month and year.

\* 2023-12-31 23:59:59.999, 2024-01-01 00:00, 2024-01-31 23:59:59.999,
\* 2024-02-01 00:00, 2024-02-15 00:00:00.001, 2024-02-29 23:59:59.999 and
\* 2024-03-01 00:00
QueryDates ==
    { MakeDate(2023, 11, 31, EndOfDayMs), MakeDate(2024, 0, 1, 0),
      MakeDate(2024, 0, 31, EndOfDayMs), MakeDate(2024, 1, 1, 0),
      MakeDate(2024, 1, 15, 1), MakeDate(2024, 1, 29, EndOfDayMs),
      MakeDate(2024, 2, 1, 0) }

QueryMonths == { 1, 2, 12 }
QueryYears == { 2023, 2024 }

\* ExpenseRepository.create(expense) of an expense of a stored category
QueryCreate ==
    \E id \in ExpenseIds, date \in QueryDates, c \in DOMAIN categories :
        RepositoryCreate(Expense(id, <<"a">>, 1500, date, c, now, <<>>))

\* ExpenseRepository.findByMonthAndYear(month, year)
FindByMonthAndYear ==
    \E month \in QueryMonths, year \in QueryYears :
        /\ last' = Outcome("ExpenseRepository.findByMonthAndYear", <<month, year>>, "",
                           ExpenseRepository_findByMonthAndYear(expenses, month, year),
                           <<>>)
        /\ UNCHANGED <<expenses, categories, usedIds, usedCatIds, now, ent, inflight>>

NextQuery ==
    \/ CategoryRepositoryCreate
    \/ QueryCreate
    \/ ExpenseRepositoryDelete
    \/ FindByMonthAndYear

SpecQuery == Init /\ [][NextQuery]_vars

----------------------------------------------------------------------------
\* State machine of the Category entity

\* "", " ", "  ", "F", " F", "F " and "G"
CategoryNames ==
    { <<>>, <<" ">>, <<" ", " ">>, <<"F">>, <<" ", "F">>, <<"F", " ">>, <<"G">> }

\* null and "d"
CategoryDescriptions == { <<>>, << <<"d">> >> }

\* undefined, "", "#f" and "red"
CategoryColors == { <<>>, << <<>> >>, << <<"#", "f">> >>, << <<"r", "e", "d">> >> }

\* Category.create(name, description, color)
CategoryCreate ==
    \E name \in CategoryNames, description \in CategoryDescriptions,
       color \in CategoryColors, uuid \in Fresh(CategoryIds, usedCatIds) :
        LET r == Category_create(name, description, color, uuid)
        IN  /\ usedCatIds' = IF r.ok THEN usedCatIds \cup {uuid} ELSE usedCatIds
            /\ last' = Outcome("Category.create", <<name, description, color>>,
                               r.error, r.value, <<>>)
            /\ UNCHANGED <<expenses, categories, usedIds, now, ent, inflight>>

NextCategory == CategoryCreate

SpecCategory == Init /\ [][NextCategory]_vars

----------------------------------------------------------------------------
\* State machine of the report's sums: the resolver adds up the amounts of the
\* month's expenses and of the additional incomes as JavaScript numbers.

\* How many expenses of a month are summed
MaxSummed == 3

\* 0.10, 0.20, 50.25 and 100.00 in cents
SummedAmounts == { 10, 20, 5025, 10000 }

\* The amounts of the expenses findByMonthAndYear returned
AmountLists == UNION { [ 1..n -> SummedAmounts ] : n \in 0..MaxSummed }

\* salary 2000.00; no additional income, or one of 300.00
SummedSalaries == { 200000 }
IncomeLists == { <<>>, <<30000>> }

\* A report request whose expenses have been fetched
InitSums ==
    /\ expenses = << >>
    /\ categories = << >>
    /\ usedIds = {}
    /\ usedCatIds = {}
    /\ now = 0
    /\ ent = <<>>
    /\ inflight = {}
    /\ \E amounts \in AmountLists, salary \in SummedSalaries, incomes \in IncomeLists :
           last = Outcome("request", <<amounts, salary, incomes>>, "", <<>>, <<>>)

\* The sums of expensesMonthlyReport over the amounts, salary and incomes
ComputeReportSums ==
    /\ last.op = "request"
    /\ last' = Outcome("sums", last.args, "",
                       << ReportSums(last.args[1], last.args[2], last.args[3]) >>,
                       <<>>)
    /\ UNCHANGED <<expenses, categories, usedIds, usedCatIds, now, ent, inflight>>

NextSums == ComputeReportSums

SpecSums == InitSums /\ [][NextSums]_vars

----------------------------------------------------------------------------
\* Properties

\* A text with at least one character that is not whitespace
NonBlank(text) == \E k \in 1..Len(text) : ~IsWhitespace(text[k])

\* The messages of the errors the entities and the report throw on bad input
ValidationErrors ==
    { "Description cannot be empty", "Amount must be positive",
      "Month must be between 1 and 12", "Category name cannot be empty" }

\* C1: under Spec, every stored expense has a description that is non-empty
\* after trimming and an amount strictly greater than zero.
C1_StoredExpensesValid ==
    \A i \in DOMAIN expenses :
        /\ NonBlank(expenses[i].description)
        /\ expenses[i].amount > 0

\* C2: under SpecRepository, every stored expense's categoryId is the id of a
\* stored category.
C2_ReferentialIntegrity ==
    \A i \in DOMAIN expenses : expenses[i].categoryId \in DOMAIN categories

\* C2: a category delete was refused while expenses are stored and another
\* category has none.
C2_Witness ==
    /\ last.op = "CategoryRepository.delete"
    /\ last.error = "Cannot delete category"
    /\ \E c \in DOMAIN categories :
         \A i \in DOMAIN expenses : expenses[i].categoryId # c

\* C3: under SpecEntity, Expense.create throws a validation error and returns
\* no instance exactly when the description is empty or whitespace-only or the
\* amount is at most zero; otherwise it returns an instance.
C3_CreateValidates ==
    last.op = "Expense.create" =>
        LET invalid == ~NonBlank(last.args[1]) \/ last.args[2] <= 0
        IN  /\ invalid => /\ last.error \in ValidationErrors
                          /\ last.value = <<>>
            /\ ~invalid => /\ last.error = ""
                           /\ Len(last.value) = 1

\* C3: Expense.create has rejected a whitespace-only description that came
\* with a positive amount.
C3_Witness ==
    /\ last.op = "Expense.create"
    /\ last.args[1] = <<" ">>
    /\ last.args[2] > 0
    /\ last.error = "Description cannot be empty"

\* C4: under SpecEntity, every successful Expense.create (the steps that
\* take an identifier from randomUUID) returns an instance whose id no earlier
\* instance has, whose createdAt is the time of the call, whose updatedAt is
\* absent and whose other fields are the arguments.
C4_CreateResult ==
    [][ usedIds' # usedIds =>
          /\ last'.op = "Expense.create"
          /\ last'.error = ""
          /\ Len(last'.value) = 1
          /\ ent' = last'.value
          /\ LET e == last'.value[1]
             IN  /\ e.id \notin usedIds
                 /\ e.createdAt = now
                 /\ e.updatedAt = <<>>
                 /\ <<e.description, e.amount, e.date, e.categoryId>> = last'.args
      ]_vars

\* C4: a second instance has been created, later than the first.
C4_Witness ==
    /\ last.op = "Expense.create"
    /\ last.error = ""
    /\ Cardinality(usedIds) = 2
    /\ last.value[1].createdAt > 0

\* C5: under SpecEntity, every Expense.update sets the four fields to its
\* arguments and updatedAt to the time of the call, which is at least the
\* previous updatedAt and at least createdAt.
C5_UpdateOverwrites ==
    [][ (last'.op = "Expense.update" /\ now' = now) =>
          /\ Len(ent) = 1
          /\ Len(ent') = 1
          /\ <<ent'[1].description, ent'[1].amount, ent'[1].date,
               ent'[1].categoryId>> = last'.args
          /\ ent'[1].updatedAt = <<now>>
          /\ ent[1].updatedAt # <<>> => ent'[1].updatedAt[1] >= ent[1].updatedAt[1]
          /\ ent'[1].updatedAt[1] >= ent'[1].createdAt
      ]_vars

\* C5: an instance has been updated after the time of its creation.
C5_Witness ==
    /\ last.op = "Expense.update"
    /\ Len(ent) = 1
    /\ ent[1].updatedAt # <<>>
    /\ ent[1].updatedAt[1] > ent[1].createdAt

\* C6: under Spec, no step changes the id or the createdAt of a stored
\* expense, and the instance a successful updateExpense has updated, like the
\* one it returns, carries the id and the createdAt of the row it was loaded
\* from.
C6_IdentityImmutable ==
    [][ /\ \A i \in (DOMAIN expenses) \cap (DOMAIN expenses') :
             /\ expenses'[i].id = expenses[i].id
             /\ expenses'[i].createdAt = expenses[i].createdAt
        /\ (last'.op = "updateExpense" /\ last'.error = "" /\ now' = now) =>
             LET id == last'.args[1]
             IN  /\ id \in (DOMAIN expenses) \cap (DOMAIN expenses')
                 /\ expenses'[id].id = id
                 /\ Len(last'.entity) = 1
                 /\ last'.entity[1].id = id
                 /\ last'.entity[1].createdAt = expenses[id].createdAt
                 /\ Len(last'.value) = 1
                 /\ last'.value[1].id = id
                 /\ last'.value[1].createdAt = expenses[id].createdAt
      ]_vars

\* C6: updateExpense has succeeded on an expense created at an earlier time.
C6_Witness ==
    /\ last.op = "updateExpense"
    /\ last.error = ""
    /\ Len(last.entity) = 1
    /\ last.entity[1].updatedAt # <<>>
    /\ last.entity[1].updatedAt[1] > last.entity[1].createdAt

\* C7: under SpecEntity, Expense.update never throws, whatever its arguments.
C7_UpdateNeverFails ==
    last.op = "Expense.update" =>
        /\ last.error = ""
        /\ Len(last.value) = 1
        /\ ent = last.value

\* C7: Expense.update has accepted an empty description with an amount of at
\* most zero.
C7_Witness ==
    /\ last.op = "Expense.update"
    /\ last.args[1] = <<>>
    /\ last.args[2] <= 0
    /\ last.error = ""
    /\ ent[1].description = <<>>

\* The number of stored expenses that reference category id
References(id) == Cardinality({ i \in DOMAIN expenses : expenses[i].categoryId = id })

\* C8: under SpecRepository, CategoryRepository.delete(id) fails while an
\* expense references id, reports the number of such expenses and leaves the
\* categories as they were; with no such expense it removes the stored
\* category id and nothing else.
C8_DeleteCategoryGuard ==
    [][ (last'.op = "CategoryRepository.delete" /\ now' = now) =>
          LET id == last'.args[1]
              n == References(id)
          IN  /\ expenses' = expenses
              /\ n > 0 => /\ last'.error = "Cannot delete category"
                          /\ last'.value = <<n>>
                          /\ categories' = categories
              /\ (n = 0 /\ id \in DOMAIN categories) =>
                          /\ last'.error = ""
                          /\ DOMAIN categories' = (DOMAIN categories) \ {id}
                          /\ \A c \in DOMAIN categories' : categories'[c] = categories[c]
      ]_vars

\* C8: a delete was refused with a count of two blocking expenses.
C8_Witness ==
    /\ last.op = "CategoryRepository.delete"
    /\ last.error = "Cannot delete category"
    /\ last.value = <<2>>
    /\ last.args[1] \in DOMAIN categories

\* The row of expense after the step is the one the repository was asked to
\* write (the amount to the cent), and no other row has changed
Written(expense) ==
    /\ expense.id \in DOMAIN expenses'
    /\ expenses'[expense.id].id = expense.id
    /\ expenses'[expense.id].description = expense.description
    /\ expenses'[expense.id].date = expense.date
    /\ expenses'[expense.id].categoryId = expense.categoryId
    /\ expenses'[expense.id].amount - expense.amount \in -5..5
    /\ DOMAIN expenses' = (DOMAIN expenses) \cup {expense.id}
    /\ \A i \in (DOMAIN expenses) \ {expense.id} : expenses'[i] = expenses[i]

\* The call failed on the missing category and wrote nothing
RefusedForCategory ==
    /\ last'.error = "Category does not exist"
    /\ expenses' = expenses

\* C9 as stated: under SpecRepository, ExpenseRepository.create and update
\* fail without writing when the expense's categoryId is not a stored
\* category's id, and write the expense whenever it is.
C9_WritesWheneverCategoryExists ==
    [][ /\ (last'.op = "ExpenseRepository.create" /\ now' = now) =>
           LET e == last'.args[2] IN
                 IF e.categoryId \notin DOMAIN categories
                 THEN RefusedForCategory
                 ELSE last'.error = "" /\ Written(e)
        /\ (last'.op = "ExpenseRepository.update" /\ now' = now) =>
           LET e == last'.args[2] IN
                 IF e.categoryId \notin DOMAIN categories
                 THEN RefusedForCategory
                 ELSE last'.error = "" /\ Written(e)
      ]_vars

\* C9 amended: they fail without writing when the categoryId is not a stored
\* category's id; when it is, create writes the expense if no expense with its
\* id is stored, update writes it if one is, and otherwise the call fails
\* without writing.
C9_WritesWhenCategoryAndKeyAllow ==
    [][ /\ (last'.op = "ExpenseRepository.create" /\ now' = now) =>
           LET e == last'.args[2] IN
                 IF e.categoryId \notin DOMAIN categories
                 THEN RefusedForCategory
                 ELSE IF e.id \notin DOMAIN expenses
                 THEN last'.error = "" /\ Written(e)
                 ELSE last'.error # "" /\ expenses' = expenses
        /\ (last'.op = "ExpenseRepository.update" /\ now' = now) =>
           LET e == last'.args[2] IN
                 IF e.categoryId \notin DOMAIN categories
                 THEN RefusedForCategory
                 ELSE IF e.id \in DOMAIN expenses
                 THEN last'.error = "" /\ Written(e)
                 ELSE last'.error # "" /\ expenses' = expenses
      ]_vars

\* C9: an update was refused for its missing category while another category
\* and the expense itself are stored.
C9_Witness ==
    /\ last.op = "ExpenseRepository.update"
    /\ last.error = "Category does not exist"
    /\ last.args[1] \in DOMAIN expenses
    /\ categories # << >>

\* C10: under SpecReport, expensesMonthlyReport throws its validation error
\* and returns no report for every month outside 1..12, and returns a report
\* for every month in 1..12.
C10_ReportValidatesMonth ==
    last.op = "expensesMonthlyReport" =>
        LET month == last.args[1]
        IN  /\ month \notin 1..12 => /\ last.error = "Month must be between 1 and 12"
                                     /\ last.error \in ValidationErrors
                                     /\ last.value = <<>>
            /\ month \in 1..12 => /\ last.error = ""
                                  /\ Len(last.value) = 1

\* C10: a report for month 13 was refused while expenses are stored.
C10_Witness ==
    /\ last.op = "expensesMonthlyReport"
    /\ last.args[1] = 13
    /\ last.error = "Month must be between 1 and 12"
    /\ expenses # << >>

\* The days of month m of year y
DaysInMonth(y, m) ==
    IF m = 2 THEN (IF IsLeapYear(y) THEN 29 ELSE 28)
    ELSE IF m \in {4, 6, 9, 11} THEN 30 ELSE 31

\* The date d falls on a day of month m of year y
InMonth(d, m, y) ==
    \E day \in 1..DaysInMonth(y, m) : d[1] = MakeDate(y, m - 1, day, 0)[1]

\* The sum of f[i] over the indices i in ids
RECURSIVE SumOver(_, _)
SumOver(f, ids) ==
    IF ids = {} THEN 0
    ELSE LET i == CHOOSE j \in ids : TRUE
         IN  f[i] + SumOver(f, ids \ {i})

\* A step is a successful report query
ReportStep ==
    /\ last'.op = "expensesMonthlyReport"
    /\ last'.error = ""
    /\ Len(last'.value) = 1

\* C11: under SpecReport, a report for a month in 1..12 lists exactly the
\* stored expenses dated within that month and year, each once and with its
\* stored amount, and its totalExpenses is the sum of their amounts.
C11_TotalIsSumOfMonthExpenses ==
    [][ ReportStep =>
          LET report == last'.value[1]
              ids == { i \in DOMAIN expenses :
                         InMonth(expenses[i].date, last'.args[1], last'.args[2]) }
              listed == report.expenses
          IN  /\ Len(listed) = Cardinality(ids)
              /\ { listed[k].id : k \in 1..Len(listed) } = ids
              /\ \A k \in 1..Len(listed) :
                     listed[k].amount = expenses[listed[k].id].amount
              /\ report.totalExpenses =
                     SumOver([ i \in ids |-> expenses[i].amount ], ids)
      ]_vars

\* C11: a report listed one of two stored expenses, with a positive total.
C11_Witness ==
    /\ last.op = "expensesMonthlyReport"
    /\ last.error = ""
    /\ Len(last.value[1].expenses) = 1
    /\ Cardinality(DOMAIN expenses) = 2
    /\ last.value[1].totalExpenses > 0

\* The sum of the amounts of a list of items, from its head
RECURSIVE TotalOf(_)
TotalOf(items) ==
    IF items = <<>> THEN 0 ELSE Head(items).amount + TotalOf(Tail(items))

\* C12: under SpecReport, every report has netIncome = salary + the sum of
\* the additionalIncome amounts - totalExpenses; with no expenses and no
\* additional income, totalExpenses is 0 and netIncome is the salary.
C12_NetIncome ==
    (last.op = "expensesMonthlyReport" /\ last.error = "") =>
        LET report == last.value[1]
            salary == last.args[3]
            additionalIncome == last.args[4]
        IN  /\ report.netIncome =
                   salary + TotalOf(additionalIncome) - report.totalExpenses
            /\ (report.expenses = <<>> /\ additionalIncome = <<>>) =>
                   report.totalExpenses = 0 /\ report.netIncome = salary

\* C12: a report with expenses and an additional income was returned.
C12_Witness ==
    /\ last.op = "expensesMonthlyReport"
    /\ last.error = ""
    /\ last.args[4] # <<>>
    /\ last.value[1].expenses # <<>>
    /\ last.value[1].netIncome < last.args[3] + TotalOf(last.args[4])

\* The English name of month m
EnglishMonth(m) ==
    CASE m = 1 -> "January" [] m = 2 -> "February" [] m = 3 -> "March"
      [] m = 4 -> "April" [] m = 5 -> "May" [] m = 6 -> "June"
      [] m = 7 -> "July" [] m = 8 -> "August" [] m = 9 -> "September"
      [] m = 10 -> "October" [] m = 11 -> "November" [] m = 12 -> "December"

\* C13: under SpecReport, every report for a month in 1..12 carries the
\* English name of the month, and the year, salary and additionalIncome list
\* as supplied.
C13_ReportEchoesArguments ==
    (last.op = "expensesMonthlyReport" /\ last.args[1] \in 1..12) =>
        /\ Len(last.value) = 1
        /\ last.value[1].month = EnglishMonth(last.args[1])
        /\ last.value[1].year = last.args[2]
        /\ last.value[1].salary = last.args[3]
        /\ last.value[1].additionalIncome = last.args[4]

\* C13: a report for December with an additional income was returned.
C13_Witness ==
    /\ last.op = "expensesMonthlyReport"
    /\ last.args[1] = 12
    /\ last.args[4] # <<>>
    /\ Len(last.value) = 1
    /\ last.value[1].month = "December"

\* What the report query answers for its arguments over the stored expenses
ReportOutcome(tbl, args) ==
    LET r == expensesMonthlyReport(tbl, args[1], args[2], args[3], args[4])
    IN  <<r.error, r.value>>

C16_MonthRangeNewestFirst ==
    [][ last'.op = "ExpenseRepository.findByMonthAndYear" =>
          LET found == last'.value
              ids == { i \in DOMAIN expenses :
                         InMonth(expenses[i].date, last'.args[1], last'.args[2]) }
          IN  /\ Len(found) = Cardinality(ids)
              /\ { found[k].id : k \in 1..Len(found) } = ids
              /\ \A k \in 1..Len(found) : found[k] = expenses[found[k].id]
              /\ \A k, l \in 1..Len(found) :
                     k < l => DateLeq(found[l].date, found[k].date)
      ]_vars

\* C16: February 2024 was looked up and returned the expense of the last
\* millisecond of the 29th before the expense of the first instant of the 1st.
C16_Witness ==
    /\ last.op = "ExpenseRepository.findByMonthAndYear"
    /\ last.args = <<2, 2024>>
    /\ Len(last.value) = 2
    /\ last.value[1].date = MakeDate(2024, 1, 29, EndOfDayMs)
    /\ last.value[2].date = MakeDate(2024, 1, 1, 0)

\* C17: under Spec, every stored category has a name that is non-empty
\* after trimming: createCategory never stores an empty or blank name.
C17_StoredCategoryNamesValid ==
    \A c \in DOMAIN categories : NonBlank(categories[c].name)

\* C18: under SpecCategory, Category.create throws its validation error and
\* returns no instance exactly when the name is empty or only whitespace,
\* whatever the description and colour, and returns an instance otherwise.
C18_CategoryCreateValidates ==
    last.op = "Category.create" =>
        /\ ~NonBlank(last.args[1]) <=> last.error # ""
        /\ last.error # "" => /\ last.error = "Category name cannot be empty"
                              /\ last.error \in ValidationErrors
                              /\ last.value = <<>>
        /\ last.error = "" => Len(last.value) = 1 /\ last.value[1].name = last.args[1]

\* C18: a whitespace-only name was refused although a colour was supplied.
C18_Witness ==
    /\ last.op = "Category.create"
    /\ last.args[1] = <<" ", " ">>
    /\ last.args[3] = << <<"#", "f">> >>
    /\ last.error = "Category name cannot be empty"

\* C19: under SpecCategory, a successful Category.create returns the colour
\* #000000 when the supplied colour is absent or the empty string, and the
\* supplied colour otherwise.
C19_ColorDefault ==
    (last.op = "Category.create" /\ last.error = "") =>
        LET color == last.args[3]
        IN  last.value[1].color =
                IF color = <<>> \/ color = << <<>> >>
                THEN <<"#", "0", "0", "0", "0", "0", "0">>
                ELSE color[1]

\* C19: a category was created with the empty string as its colour.
C19_Witness ==
    /\ last.op = "Category.create"
    /\ last.error = ""
    /\ last.args[3] = << <<>> >>
    /\ last.value[1].color = <<"#", "0", "0", "0", "0", "0", "0">>

\* No two stored categories have the same name
UniqueNames(cats) ==
    \A c, d \in DOMAIN cats : cats[c].name = cats[d].name => c = d

\* C20: under SpecRepository, no two stored categories ever have the same
\* name, and CategoryRepository.create with the name of a stored category
\* fails and leaves the categories as they were.
C20_CategoryNamesUnique ==
    [][ /\ UniqueNames(categories')
        /\ (last'.op = "CategoryRepository.create" /\ now' = now) =>
             ((\E c \in DOMAIN categories : categories[c].name = last'.args[1]) =>
                  /\ last'.error # ""
                  /\ last'.value = <<>>
                  /\ categories' = categories)
      ]_vars

\* C20: a creation was refused for its name while a second identifier was
\* still unused.
C20_Witness ==
    /\ last.op = "CategoryRepository.create"
    /\ last.error = "Unique constraint failed"
    /\ \E c \in DOMAIN categories : categories[c].name = last.args[1]
    /\ Cardinality(usedCatIds) = 1

\* The exact total of a list of amounts in cents
RECURSIVE CentsTotal(_)
CentsTotal(cents) ==
    IF cents = <<>> THEN 0 ELSE Head(cents) + CentsTotal(Tail(cents))

\* C15: under SpecSums, for amounts of two decimal places the report's
\* totalExpenses is the number of the exact decimal total of the expenses and
\* its netIncome the number of the exact decimal salary + incomes - expenses,
\* however many amounts are summed.
C15_SumsAreExact ==
    last.op = "sums" =>
        LET amounts == last.args[1]
            salary == last.args[2]
            incomes == last.args[3]
        IN  /\ last.value[1].totalExpenses = NumberOfCents(CentsTotal(amounts))
            /\ last.value[1].netIncome =
                   NumberOfCents(salary + CentsTotal(incomes) - CentsTotal(amounts))

----------------------------------------------------------------------------
\* Failed mutations

\* C21: under Spec, a createExpense or updateExpense mutation that fails, for
\* whatever reason (description, amount, expense not found, category missing),
\* leaves the stored expenses and the stored categories exactly as they were.
C21_FailedMutationWritesNothing ==
    [][ (/\ last'.op \in { "createExpense", "updateExpense" }
         /\ last'.error # ""
         /\ now' = now)
        => /\ expenses' = expenses
           /\ categories' = categories ]_vars

\* C21: a createExpense failed on its missing category while an expense and a
\* category are stored.
C21_Witness ==
    /\ last.op = "createExpense"
    /\ last.error = "Category does not exist"
    /\ expenses # << >>
    /\ categories # << >>

\* C22: under Spec, updateExpense with an id that is not stored fails with
\* "Expense not found"; the resolver holds no instance that Expense.update
\* has changed, whatever the input, and the store is not written
\* (ExpenseRepository.update did not run).
C22_UpdateOfUnknownIdNotFound ==
    [][ (/\ last'.op = "updateExpense"
         /\ now' = now
         /\ last'.args[1] \notin DOMAIN expenses)
        => /\ last'.error = "Expense not found"
           /\ last'.value = << >>
           /\ \A input \in ExpenseInputs :
                 updateExpense(expenses, categories, last'.args[1], input,
                               now).entity = << >>
           /\ expenses' = expenses ]_vars

\* C22: an updateExpense of an id that is not stored was refused while
\* another expense is stored.
C22_Witness ==
    /\ last.op = "updateExpense"
    /\ last.error = "Expense not found"
    /\ last.args[1] \notin DOMAIN expenses
    /\ expenses # << >>

----------------------------------------------------------------------------
\* Rehydration: entities rebuilt with fromDatabase, by a caller that holds the
\* fields (SpecHydrate)

\* The updatedAt column: null, or an instant
StoredUpdatedAts == { <<>> } \cup { <<t>> : t \in 0..MaxTime }

\* The color column: "", "#f" and "red"
StoredColors == { <<>>, <<"#", "f">>, <<"r", "e", "d">> }

\* Expense.fromDatabase(...) of the fields of Expense.create(...).toJSON()
ExpenseRoundTrip ==
    \E a \in EntityArguments, uuid \in ExpenseIds :
        LET r == Expense_create(a[1], a[2], a[3], a[4], uuid, now)
        IN  IF ~r.ok
            THEN /\ last' = Outcome("Expense.roundTrip", a, r.error, <<>>, <<>>)
                 /\ UNCHANGED <<expenses, categories, usedIds, usedCatIds, now, ent,
                                inflight>>
            ELSE LET json == Expense_toJSON(r.value[1])
                     rebuilt == Expense_fromDatabase(json.id, json.description,
                                    json.amount, json.date, json.categoryId,
                                    json.createdAt, json.updatedAt)
                 IN  /\ last' = Outcome("Expense.roundTrip", a, "",
                                        << json, Expense_toJSON(rebuilt) >>, <<rebuilt>>)
                     /\ UNCHANGED <<expenses, categories, usedIds, usedCatIds, now,
                                    ent, inflight>>

\* Two calls of Expense.fromDatabase with the same arguments
ExpenseFromDatabase ==
    \E id \in ExpenseIds, description \in Descriptions, amount \in Amounts,
       date \in Dates, categoryId \in CategoryIds, createdAt \in 0..MaxTime,
       updatedAt \in StoredUpdatedAts :
        LET first == Expense_fromDatabase(id, description, amount, date, categoryId,
                                          createdAt, updatedAt)
            second == Expense_fromDatabase(id, description, amount, date, categoryId,
                                           createdAt, updatedAt)
        IN  /\ last' = Outcome("Expense.fromDatabase",
                               <<id, description, amount, date, categoryId, createdAt,
                                 updatedAt>>,
                               "", << Expense_toJSON(first), Expense_toJSON(second) >>,
                               <<>>)
            /\ UNCHANGED <<expenses, categories, usedIds, usedCatIds, now, ent,
                           inflight>>

\* Two calls of Category.fromDatabase with the same arguments
CategoryFromDatabase ==
    \E id \in CategoryIds, name \in CategoryNames,
       description \in CategoryDescriptions, color \in StoredColors :
        LET first == Category_fromDatabase(id, name, description, color)
            second == Category_fromDatabase(id, name, description, color)
        IN  /\ last' = Outcome("Category.fromDatabase",
                               <<id, name, description, color>>,
                               "", << Category_toJSON(first), Category_toJSON(second) >>,
                               <<>>)
            /\ UNCHANGED <<expenses, categories, usedIds, usedCatIds, now, ent,
                           inflight>>

NextHydrate ==
    \/ Tick
    \/ ExpenseRoundTrip
    \/ ExpenseFromDatabase
    \/ CategoryFromDatabase

SpecHydrate == Init /\ [][NextHydrate]_vars

\* C23: under SpecHydrate, for every valid input, the entity Expense.fromDatabase
\* builds from the fields of Expense.create(...).toJSON() has a toJSON output
\* equal to the original's in every field, the amount included.
C23_CreateToJSONRoundTrip ==
    (last.op = "Expense.roundTrip" /\ last.error = "") =>
        LET original == last.value[1]
            again == last.value[2]
        IN  /\ again.id = original.id
            /\ again.description = original.description
            /\ again.amount = original.amount
            /\ again.date = original.date
            /\ again.categoryId = original.categoryId
            /\ again.createdAt = original.createdAt
            /\ again.updatedAt = original.updatedAt
            /\ again = original

\* C23: an expense created at a later instant with a padded description and
\* an amount finer than a cent went through the round trip.
C23_Witness ==
    /\ last.op = "Expense.roundTrip"
    /\ last.error = ""
    /\ last.value[1].amount = 4
    /\ last.value[1].createdAt > 0
    /\ last.value[2].amount = 4

\* C24: under SpecHydrate, Expense.fromDatabase and Category.fromDatabase
\* reject no argument (an empty description or name, an amount that is not
\* positive), and two calls with the same arguments give instances whose
\* toJSON outputs are equal to each other and, field by field, to the
\* arguments.
C24_FromDatabaseTrustsArguments ==
    /\ last.op = "Expense.fromDatabase" =>
         /\ last.error = ""
         /\ last.value[1] = last.value[2]
         /\ last.value[1] = [ id |-> last.args[1], description |-> last.args[2],
                              amount |-> last.args[3], date |-> last.args[4],
                              categoryId |-> last.args[5],
                              createdAt |-> last.args[6],
                              updatedAt |-> last.args[7] ]
    /\ last.op = "Category.fromDatabase" =>
         /\ last.error = ""
         /\ last.value[1] = last.value[2]
         /\ last.value[1] = [ id |-> last.args[1], name |-> last.args[2],
                              description |-> last.args[3], color |-> last.args[4] ]

\* C24: a category with an empty name and an empty colour was rebuilt.
C24_Witness ==
    /\ last.op = "Category.fromDatabase"
    /\ last.args[2] = << >>
    /\ last.args[4] = << >>
    /\ last.value[1].name = << >>

----------------------------------------------------------------------------
\* Listing queries of the expense repository (SpecFind)

\* ExpenseRepository.findAll()
FindAll ==
    /\ last' = Outcome("ExpenseRepository.findAll", <<>>, "",
                       ExpenseRepository_findAll(expenses), <<>>)
    /\ UNCHANGED <<expenses, categories, usedIds, usedCatIds, now, ent, inflight>>

\* ExpenseRepository.findByCategory(categoryId)
FindByCategory ==
    \E categoryId \in CategoryIds :
        /\ last' = Outcome("ExpenseRepository.findByCategory", <<categoryId>>, "",
                           ExpenseRepository_findByCategory(expenses, categoryId),
                           <<>>)
        /\ UNCHANGED <<expenses, categories, usedIds, usedCatIds, now, ent, inflight>>

NextFind ==
    \/ CategoryRepositoryCreate
    \/ QueryCreate
    \/ ExpenseRepositoryDelete
    \/ FindAll
    \/ FindByCategory

SpecFind == Init /\ [][NextFind]_vars

\* The list holds exactly the stored expenses whose ids are in ids, each once
\* and as stored, from the newest date to the oldest
ListsNewestFirst(list, ids) ==
    /\ Len(list) = Cardinality(ids)
    /\ { list[k].id : k \in 1..Len(list) } = ids
    /\ \A k \in 1..Len(list) :
         /\ list[k].id \in DOMAIN expenses
         /\ list[k] = RowToExpense(expenses[list[k].id])
    /\ \A k \in 1..(Len(list) - 1) : DateLeq(list[k + 1].date, list[k].date)

\* C25: under SpecFind, findAll returns every stored expense exactly once and
\* findByCategory(c) returns exactly the stored expenses whose categoryId is
\* c, both ordered by date from newest to oldest.
C25_ListingsCompleteNewestFirst ==
    /\ last.op = "ExpenseRepository.findAll" =>
         ListsNewestFirst(last.value, DOMAIN expenses)
    /\ last.op = "ExpenseRepository.findByCategory" =>
         ListsNewestFirst(last.value,
                          { i \in DOMAIN expenses :
                              expenses[i].categoryId = last.args[1] })

\* C25: findByCategory returned one of two stored expenses, the other being
\* of another category and of another date.
C25_Witness ==
    /\ last.op = "ExpenseRepository.findByCategory"
    /\ Len(last.value) = 1
    /\ \E i \in DOMAIN expenses :
         /\ expenses[i].categoryId # last.args[1]
         /\ expenses[i].date # last.value[1].date

----------------------------------------------------------------------------
\* Repository calls whose awaits interleave (SpecRace).  Every Prisma call is
\* one statement, which the store runs atomically; a repository method that
\* awaits two of them is two steps, and other calls may run between the two.
\* inflight holds the calls that have passed their first await.

MaxInFlight == 2

\* A suspended call: the method, the id of its category, its expense if any
Call(op, id, expense) == [ op |-> op, id |-> id, expense |-> expense ]

\* Instances handed to the racing ExpenseRepository.create and update
RaceExpenses ==
    { Expense(id, <<"a">>, 1500, MakeDate(2024, 1, 29, EndOfDayMs), c, 0, <<>>) :
        id \in ExpenseIds, c \in CategoryIds }

\* ExpenseRepository.create / update up to the first await: the lookup of the
\* category, and the throw if it is missing
RaceLookup(op, expense) ==
    /\ Cardinality(inflight) < MaxInFlight
    /\ IF Prisma_category_findUnique(categories, expense.categoryId) = <<>>
       THEN /\ last' = Outcome(op, <<expense.id, expense>>,
                               "Category does not exist", <<>>, <<>>)
            /\ UNCHANGED <<expenses, categories, usedIds, usedCatIds, now, ent,
                           inflight>>
       ELSE /\ inflight' = inflight \cup { Call(op, expense.categoryId, <<expense>>) }
            /\ UNCHANGED <<expenses, categories, usedIds, usedCatIds, now, ent, last>>

RaceCreateLookup ==
    \E expense \in RaceExpenses : RaceLookup("ExpenseRepository.create", expense)

RaceUpdateLookup ==
    \E expense \in RaceExpenses : RaceLookup("ExpenseRepository.update", expense)

\* ExpenseRepository.create resumed: prisma.expense.create and the return
RaceCreateWrite ==
    \E call \in inflight :
        /\ call.op = "ExpenseRepository.create"
        /\ LET r == ExpenseRepository_create_Write(expenses, categories,
                                                   call.expense[1], now)
           IN  /\ expenses' = r.expenses
               /\ inflight' = inflight \ {call}
               /\ last' = Outcome(call.op, <<call.expense[1].id, call.expense[1]>>,
                                  r.error, r.value, <<>>)
               /\ UNCHANGED <<categories, usedIds, usedCatIds, now, ent>>

\* ExpenseRepository.update resumed: prisma.expense.update and the return
RaceUpdateWrite ==
    \E call \in inflight :
        /\ call.op = "ExpenseRepository.update"
        /\ LET r == ExpenseRepository_update_Write(expenses, categories,
                                                   call.expense[1], now)
           IN  /\ expenses' = r.expenses
               /\ inflight' = inflight \ {call}
               /\ last' = Outcome(call.op, <<call.expense[1].id, call.expense[1]>>,
                                  r.error, r.value, <<>>)
               /\ UNCHANGED <<categories, usedIds, usedCatIds, now, ent>>

\* CategoryRepository.delete up to the first await: the count of the
\* category's expenses, and the throw if there is any
RaceDeleteCount ==
    \E id \in CategoryIds :
        /\ Cardinality(inflight) < MaxInFlight
        /\ LET expenseCount == Prisma_expense_count(expenses, id)
           IN  IF expenseCount > 0
               THEN /\ last' = Outcome("CategoryRepository.delete", <<id>>,
                                       "Cannot delete category", <<expenseCount>>,
                                       <<>>)
                    /\ UNCHANGED <<expenses, categories, usedIds, usedCatIds, now,
                                   ent, inflight>>
               ELSE /\ inflight' = inflight \cup
                                     { Call("CategoryRepository.delete", id, <<>>) }
                    /\ UNCHANGED <<expenses, categories, usedIds, usedCatIds, now,
                                   ent, last>>

\* CategoryRepository.delete resumed: prisma.category.delete
RaceDeleteCategory ==
    \E call \in inflight :
        /\ call.op = "CategoryRepository.delete"
        /\ LET r == Prisma_category_delete(categories, expenses, call.id)
           IN  /\ categories' = r.categories
               /\ inflight' = inflight \ {call}
               /\ last' = Outcome(call.op, <<call.id>>, r.error, <<0>>, <<>>)
               /\ UNCHANGED <<expenses, usedIds, usedCatIds, now, ent>>

NextRace ==
    \/ CategoryRepositoryCreate
    \/ ExpenseRepositoryDelete
    \/ RaceCreateLookup
    \/ RaceCreateWrite
    \/ RaceUpdateLookup
    \/ RaceUpdateWrite
    \/ RaceDeleteCount
    \/ RaceDeleteCategory

SpecRace == Init /\ [][NextRace]_vars

\* C26: under SpecRace, where the category check and the write of
\* ExpenseRepository.create / update interleave with the count and the delete
\* of CategoryRepository.delete, every reachable store keeps each expense's
\* categoryId among the ids of the stored categories.
C26_RacingWritesKeepCategoryReference ==
    { expenses[i].categoryId : i \in DOMAIN expenses } \subseteq DOMAIN categories

\* C26: a create passed its category check, a concurrent delete then removed
\* the category, and the store refused the create's write.
C26_Witness ==
    /\ last.op = "ExpenseRepository.create"
    /\ last.error = "Foreign key constraint failed"
    /\ last.args[2].categoryId \notin DOMAIN categories
    /\ expenses # << >>

----------------------------------------------------------------------------
\* Mutations with descriptions around the length the validation schemas
\* allow (SpecBoundary)

\* z.string().min(1).max(500) of CreateExpenseSchema and UpdateExpenseSchema
MaxDescriptionLength == 500

\* A description of n characters
TextOfLength(n) == [ k \in 1..n |-> "a" ]

\* Inputs with descriptions of 1, 500 and 501 characters
BoundaryInputs ==
    { [ description |-> TextOfLength(n), amount |-> 1500,
        date |-> MakeDate(2024, 1, 29, EndOfDayMs), categoryId |-> c ] :
        n \in { 1, MaxDescriptionLength, MaxDescriptionLength + 1 },
        c \in CategoryIds }

\* mutation createExpense(input); args is the length of the description
BoundaryCreateExpense ==
    \E input \in BoundaryInputs, uuid \in randomUUID(usedIds) :
        LET r == createExpense(expenses, categories, input, uuid, now)
        IN  /\ expenses' = r.expenses
            /\ usedIds' = IF Expense_create(input.description, input.amount, input.date,
                                            input.categoryId, uuid, now).ok
                          THEN usedIds \cup {uuid} ELSE usedIds
            /\ last' = Outcome("createExpense", << Len(input.description) >>, r.error,
                               r.value, <<>>)
            /\ UNCHANGED <<categories, usedCatIds, now, ent, inflight>>

\* mutation updateExpense(id, input)
BoundaryUpdateExpense ==
    \E id \in ExpenseIds, input \in BoundaryInputs :
        LET r == updateExpense(expenses, categories, id, input, now)
        IN  /\ expenses' = r.expenses
            /\ last' = Outcome("updateExpense", << Len(input.description) >>, r.error,
                               r.value, <<>>)
            /\ UNCHANGED <<categories, usedIds, usedCatIds, now, ent, inflight>>

NextBoundary ==
    \/ CreateCategory
    \/ BoundaryCreateExpense
    \/ BoundaryUpdateExpense
    \/ DeleteExpense

SpecBoundary == Init /\ [][NextBoundary]_vars

\* C27: under SpecBoundary, every expense stored through createExpense or
\* updateExpense has a description of at most 500 characters (a mutation with
\* a longer one is rejected and stores nothing).
C27_StoredDescriptionsWithinLimit ==
    \A i \in DOMAIN expenses : Len(expenses[i].description) <= MaxDescriptionLength

----------------------------------------------------------------------------
\* updateExpense calls whose awaits interleave (SpecConcurrentUpdate).  The
\* resolver awaits findById, then updates the instance it got (stamping
\* updatedAt) and calls ExpenseRepository.update, which awaits the category
\* lookup and then the write.  inflight holds the calls between these awaits
\* with the instance each one holds.

\* A suspended updateExpense: what it awaits next, and its instance
UpdateCall(at, expense) == [ op |-> "updateExpense", at |-> at, expense |-> expense ]

\* Two inputs that differ in every field
RacingInputs ==
    { [ description |-> <<"a">>, amount |-> 1500,
        date |-> MakeDate(2024, 1, 29, EndOfDayMs), categoryId |-> 1 ],
      [ description |-> <<"b">>, amount |-> 2500,
        date |-> MakeDate(2024, 2, 1, 0), categoryId |-> 2 ] }

\* mutation createExpense(input), with one of the two inputs
RacingCreateExpense ==
    \E input \in RacingInputs, uuid \in randomUUID(usedIds) :
        LET r == createExpense(expenses, categories, input, uuid, now)
        IN  /\ expenses' = r.expenses
            /\ usedIds' = usedIds \cup {uuid}
            /\ last' = Outcome("createExpense", <<>>, r.error, r.value,
                               IF r.ok THEN r.entity ELSE <<>>)
            /\ UNCHANGED <<categories, usedCatIds, now, ent, inflight>>

\* updateExpense up to its second await: findById, the throw on null,
\* existing.update(...) at the current time
UpdateRead ==
    \E id \in ExpenseIds, input \in RacingInputs :
        /\ Cardinality(inflight) < MaxInFlight
        /\ LET existing == ExpenseRepository_findById(expenses, id)
           IN  IF existing = <<>>
               THEN /\ last' = Outcome("updateExpense", <<id>>, "Expense not found",
                                       <<>>, <<>>)
                    /\ UNCHANGED <<expenses, categories, usedIds, usedCatIds, now,
                                   ent, inflight>>
               ELSE LET u == Expense_update(existing[1], input.description,
                                            input.amount, input.date,
                                            input.categoryId, now)
                    IN  /\ inflight' = inflight \cup
                                         { UpdateCall("lookup", u.value[1]) }
                        /\ UNCHANGED <<expenses, categories, usedIds, usedCatIds,
                                       now, ent, last>>

\* ExpenseRepository.update up to its second await: the category lookup
UpdateLookup ==
    \E call \in inflight :
        /\ call.op = "updateExpense"
        /\ call.at = "lookup"
        /\ IF Prisma_category_findUnique(categories, call.expense.categoryId) = <<>>
           THEN /\ inflight' = inflight \ {call}
                /\ last' = Outcome("updateExpense", <<call.expense.id>>,
                                   "Category does not exist", <<>>, <<>>)
                /\ UNCHANGED <<expenses, categories, usedIds, usedCatIds, now, ent>>
           ELSE /\ inflight' = (inflight \ {call}) \cup
                                 { UpdateCall("write", call.expense) }
                /\ UNCHANGED <<expenses, categories, usedIds, usedCatIds, now, ent,
                               last>>

\* ExpenseRepository.update resumed: prisma.expense.update and the return
UpdateWrite ==
    \E call \in inflight :
        /\ call.op = "updateExpense"
        /\ call.at = "write"
        /\ LET r == ExpenseRepository_update_Write(expenses, categories,
                                                   call.expense, now)
           IN  /\ expenses' = r.expenses
               /\ inflight' = inflight \ {call}
               /\ last' = Outcome("updateExpense", <<call.expense.id>>, r.error,
                                  r.value, <<call.expense>>)
               /\ UNCHANGED <<categories, usedIds, usedCatIds, now, ent>>

NextConcurrentUpdate ==
    \/ Tick
    \/ CreateCategory
    \/ RacingCreateExpense
    \/ UpdateRead
    \/ UpdateLookup
    \/ UpdateWrite

SpecConcurrentUpdate == Init /\ [][NextConcurrentUpdate]_vars

\* C28: under SpecConcurrentUpdate, across every interleaving of concurrent
\* updateExpense calls on the same expense, the stored updatedAt of an expense
\* never decreases from one store state to the next.
C28_StoredUpdatedAtNeverDecreases ==
    [][ \A i \in (DOMAIN expenses) \cap (DOMAIN expenses') :
          (expenses[i].updatedAt # << >>) =>
              /\ expenses'[i].updatedAt # << >>
              /\ expenses'[i].updatedAt[1] >= expenses[i].updatedAt[1] ]_vars

\* The four fields of a row that an input sets
InputFields(row) ==
    [ description |-> row.description, amount |-> row.amount, date |-> row.date,
      categoryId |-> row.categoryId ]

\* C29: under SpecConcurrentUpdate, across every interleaving of concurrent
\* updateExpense calls on the same expense, the stored description, amount,
\* date and categoryId of an expense are always those of one single input
\* (of an update or of the creation), never a mixture of two.
C29_StoredFieldsFromOneInput ==
    \A i \in DOMAIN expenses : InputFields(expenses[i]) \in RacingInputs

\* C29: an update has written its input while another update of the same
\* expense, holding the other input, is suspended before its write.
C29_Witness ==
    /\ last.op = "updateExpense"
    /\ last.error = ""
    /\ \E call \in inflight :
         /\ call.at = "write"
         /\ call.expense.id = last.args[1]
         /\ call.expense.description # expenses[last.args[1]].description

----------------------------------------------------------------------------
\* The second expensesMonthlyReport resolver of the repository, which takes
\* the additional income as one number (SpecVariants)

\* const monthNames of the second resolver
monthNames ==
    << "January", "February", "March", "April", "May", "June",
       "July", "August", "September", "October", "November", "December" >>

\* names[month - 1] of a list indexed from zero: undefined outside the list
MonthNameAt(names, month) ==
    IF month \in 1..Len(names) THEN names[month] ELSE "undefined"

\* The resolver reading monthNames[month]
expensesMonthlyReportOfNumber_NextMonth(tbl, month, year, salary, additionalIncome) ==
    LET found == ExpenseRepository_findByMonthAndYear(tbl, month, year)
        totalExpenses == SumAmounts(found)
        totalIncome == salary + additionalIncome
        netIncome == totalIncome - totalExpenses
        monthName == MonthNameAt(monthNames, month + 1)
    IN  [ ok |-> TRUE, error |-> "",
          value |-> << [ moth |-> monthName,
                         year |-> year,
                         salary |-> salary,
                         additionalIncome |-> additionalIncome,
                         totalExpenses |-> totalExpenses,
                         netIncome |-> netIncome,
                         expenses |-> found ] >> ]

\* expenseQueries.expensesMonthlyReport with additionalIncome: number; it does
\* not test the month and names the month field `moth`
expensesMonthlyReportOfNumber(tbl, month, year, salary, additionalIncome) ==
    LET found == ExpenseRepository_findByMonthAndYear(tbl, month, year)
        totalExpenses == SumAmounts(found)
        totalIncome == salary + additionalIncome
        netIncome == totalIncome - totalExpenses
        monthName == MonthNameAt(monthNames, month)
    IN  [ ok |-> TRUE, error |-> "",
          value |-> << [ moth |-> monthName,
                         year |-> year,
                         salary |-> salary,
                         additionalIncome |-> additionalIncome,
                         totalExpenses |-> totalExpenses,
                         netIncome |-> netIncome,
                         expenses |-> found ] >> ]

\* Lists of additional income of zero, one and two items
VariantIncomes ==
    AdditionalIncomes \cup
      { << [ description |-> <<"b">>, amount |-> 300 * 1000 ],
           [ description |-> <<"c">>, amount |-> 4 ] >> }

\* The two resolvers asked about the same month of the same store, the second
\* given the sum of the items the first is given; value holds the two results
ReportVariants ==
    \E month \in ReportMonths, year \in ReportYears, salary \in Salaries,
       additionalIncome \in VariantIncomes :
        LET ofItems == expensesMonthlyReport(expenses, month, year, salary,
                                             additionalIncome)
            ofNumber == expensesMonthlyReportOfNumber(expenses, month, year, salary,
                                                      SumAmounts(additionalIncome))
        IN  /\ last' = Outcome("expensesMonthlyReport twice",
                               <<month, year, salary, additionalIncome>>,
                               ofItems.error, << ofItems, ofNumber >>, <<>>)
            /\ UNCHANGED <<expenses, categories, usedIds, usedCatIds, now, ent,
                           inflight>>

NextVariants ==
    \/ CreateExpense
    \/ UpdateExpense
    \/ DeleteExpense
    \/ CreateCategory
    \/ ReportVariants

SpecVariants == Init /\ [][NextVariants]_vars

\* C30: under SpecVariants, for every month in 1..12, year, salary and store,
\* the two expensesMonthlyReport resolvers return the same totalExpenses, the
\* same netIncome and the same month name when the number given to one is the
\* sum of the amounts of the items given to the other.
C30_ReportVariantsAgree ==
    (last.op = "expensesMonthlyReport twice" /\ last.args[1] \in 1..12) =>
        LET ofItems == last.value[1]
            ofNumber == last.value[2]
        IN  /\ ofItems.ok
            /\ ofNumber.ok
            /\ ofNumber.value[1].totalExpenses = ofItems.value[1].totalExpenses
            /\ ofNumber.value[1].netIncome = ofItems.value[1].netIncome
            /\ ofNumber.value[1].moth = ofItems.value[1].month

\* C30: the two resolvers reported a month with stored expenses and two items
\* of additional income.
C30_Witness ==
    /\ last.op = "expensesMonthlyReport twice"
    /\ last.args[1] \in 1..12
    /\ Len(last.args[4]) = 2
    /\ last.value[1].ok
    /\ last.value[1].value[1].totalExpenses > 0
    /\ last.value[2].value[1].totalExpenses > 0

====
